---- MODULE Spec2Model ----
(***************************************************************************)
(* AXONBRIDGE-Linux: the input-lock controller (src/src/input_lock.rs),    *)
(* the tasks of the bridge that drive it (src/src/main.rs,                 *)
(* src/src/system_tray.rs), the audio ring buffer                          *)
(* (src/src/audio/ring_buffer.rs) and the streaming pipeline               *)
(* (src/src/streaming/stream_manager.rs, src/src/agent.rs,                 *)
(* src/src/grpc_service.rs, src/src/video/encoder.rs).                     *)
(*                                                                         *)
(* Spec           the bridge: RPC handlers, watchdog, hotkey listener,     *)
(*                tray.                                                    *)
(* RingSpec       one producer and one consumer on a RingBuffer.           *)
(* RingClearSpec  the same, the consumer also calling clear.               *)
(* PipeSpec       the capture, encode and transmit tasks of a              *)
(*                StreamManager, the agent starting and stopping it, and   *)
(*                StreamFrames subscribers.                                *)
(***************************************************************************)
EXTENDS Integers, Sequences, FiniteSets, TLC

(***************************************************************************)
(* Bounds of the model.                                                    *)
(***************************************************************************)
\* The clock counts ticks; it stops at MaxTime.
MaxTime == 4
\* lock_timeout in ticks (the field is 5 min in new(); one tick stands for
\* one watchdog period of 5 s, so the model scales the timeout down).
LockTimeout == 2
\* The watchdog's sleep between two polls, in ticks.
WatchdogPeriod == 1
\* RingBuffer::new(Capacity)
Capacity == 4
\* the longest slice handed to write or read (longer than the buffer, so
\* that overflow and underflow happen)
MaxChunk == 5
\* the producer stops after this many samples have been accepted
MaxSamples == 7
\* the capture stages stop after this many frames have been captured, over
\* all managers
MaxFrames == 4
\* StreamManager::new is called at most this many times
MaxStarts == 2
\* config.quality.max_queue_size (60 by default), the capacity of the two
\* mpsc queues, scaled down
MaxQueue == 2
\* the number of frames the broadcast channel retains (broadcast::channel(10)
\* in StreamManager::new), scaled down
BroadcastCapacity == 2
\* EncoderConfig.keyframe_interval (fps * 2 in encode_loop), scaled down
KeyframeInterval == 2
\* the screen coordinates of an input request range over 1..MaxCoord
MaxCoord == 2
\* CoordinateValidator::new(screen_width, screen_height), scaled down: the
\* last coordinate of a request lies off the screen
ScreenWidth == 2
ScreenHeight == 2
\* the fuzzy matcher scores two equal strings above find_app's threshold,
\* with one of the values 31..MaxScore
MaxScore == 32
\* broadcast::channel(capacity) behind audio_tx (16 in the tests, 100
\* frames in AudioStreamConfig::default), scaled down, and the number of
\* audio frames sent in a run
AudioCapacity == 2
MaxAudioFrames == 4
\* the runtime has between 1 and MaxWorkers worker threads (one per core)
MaxWorkers == 2
\* config.keyframe_interval of an encoder used on its own ranges over
\* 1..MaxInterval
MaxInterval == 3
\* the largest sequence number of a RawFrame handed to such an encoder
MaxRawSeq == 5

(***************************************************************************)
(* Program constants.                                                      *)
(***************************************************************************)
MAX_RETRIES == 3

(***************************************************************************)
(* Tasks.  Two RPC handler tasks (tonic runs each request as a task, so    *)
(* two requests can be in flight), the watchdog task, the emergency-hotkey *)
(* task and the tray's menu callbacks.                                     *)
(***************************************************************************)
RpcTasks == {"rpc1", "rpc2"}
Tasks == RpcTasks \cup {"watchdog", "hotkey", "tray"}
NoTask == "none"

RpcOps == {"SetInputLockTrue", "SetInputLockFalse", "UnregisterAgent"}
TrayOps == {"request_control", "stop_training", "tray_emergency_unlock"}
ControlModes == {"AiControl", "TrainingMode", "Idle"}

\* The kinds of line `xinput list` can print, as discover_input_devices and
\* discover_master_devices tell them apart.
\*   kb    a line with "keyboard" and "id="            (a slave keyboard)
\*   ptr   a line with "pointer" and "id=", no "Keyboard"
\*   mkb   a line with "master keyboard" (so also "keyboard") and "id="
\*   mptr  a line with "master pointer" (so also "pointer") and "id="
LineKinds == {"kb", "ptr", "mkb", "mptr"}

\* the three stage tasks StreamManager::start spawns
StageTasks == {"capture", "encode", "transmit"}
\* the StreamFrames calls, each with a broadcast receiver of its own;
\* PipeSpec follows the first one, PipeTwoSpec both
Subs == {"s1", "s2"}
Followed == {"s1"}

VARIABLES
    \* InputLockController
    keyboard_id,          \* BOOLEAN: Option is Some
    mouse_id,
    master_keyboard_id,
    master_pointer_id,
    locked_at,            \* {} is None, {t} is Some(t)
    is_locked,
    \* BridgeService::new() succeeded (main goes on to serve)
    serviceUp,
    \* the X server: is the device floating (detached from its master)
    kbFloating,
    mouseFloating,
    \* Arc<RwLock<InputLockController>>: the task holding the write guard
    holder,
    \* BridgeService.agent_id is Some
    agent_id,
    \* AxonBridgeTray
    control_mode,
    orchestrator_connected,
    \* the operator holds Ctrl+Alt+Shift+U
    hotkeyPressed,
    \* per task: position, operation, attempt number, Result of the
    \* controller call
    pc,
    op,
    attempt,
    result,
    \* time
    now,
    wd_next,
    \* history of the current lock episode: unlocks forced by the watchdog,
    \* calls of notify_lock_timeout
    forced,
    notified,
    \* RingBuffer
    buffer,               \* [0..Capacity-1 -> sample]
    write_pos,
    read_pos,
    \* the producer inside write(samples): position, samples.len(), the two
    \* loaded positions, to_write
    w_pc,
    w_len,
    w_write_pos,
    w_read_pos,
    w_to_write,
    \* the consumer inside read(output): position, output.len(), the two
    \* loaded positions, to_read, the part of output filled so far
    r_pc,
    r_len,
    r_write_pos,
    r_read_pos,
    r_to_read,
    r_output,
    \* history: the sum of the values write returned, and every sample read
    \* returned, in order
    written_total,
    read_log,
    \* the build: cfg(target_os = "macos")
    target_macos,
    \* Agent: state, stream_manager is Some, stop_capture is inside
    \* manager.stop() (holding the write guard of stream_manager)
    agent_state,
    stream_manager,
    stop_pc,
    \* history: calls of StreamManager::new (one broadcast channel each),
    \* stage tasks spawned and frames captured, over all managers
    managers,
    spawned,
    captured_total,
    \* the StreamManager the agent created last: the flag, the position of
    \* each stage task, the two mpsc queues (raw frames carry nothing the
    \* pipeline looks at, so Q1 is a count), the encoder, the frames stored
    \* in the broadcast channel since its creation, the counters
    is_streaming,
    stage,
    q1,
    q2,
    hardware,
    frame_count,
    sent,
    frames_captured,
    frames_encoded,
    frames_transmitted,
    frames_dropped,
    \* per StreamFrames call: state of the stream, the manager subscribed
    \* to, the receiver's position in `sent`, the frames yielded to the
    \* client, whether it subscribed before the encoder had put out a frame,
    \* the sequences the receiver skipped by lagging
    sub_state,
    sub_mgr,
    sub_pos,
    received,
    sub_from_start,
    skipped,
    \* history of the last manager: sequences lost inside the pipeline (an
    \* encode error, a full Q2), stop has returned, kind of the encoder's
    \* first successful output
    dropped_seqs,
    stop_returned,
    first_out,
    \* an encoder used on its own: config.keyframe_interval, the flag set by
    \* request_keyframe, the sequence of the last RawFrame handed to encode,
    \* and the history of its outputs
    keyframe_interval,
    request_keyframe_flag,
    raw_seq,
    encoder_out,
    \* DesktopAgentService: agent is Some; per input handler whether it was
    \* Some when the request arrived and the coordinates asked for; the
    \* pointer of the display; where each handler's click landed (0: no
    \* click yet); the handlers whose key was typed
    agent,
    inj_agent,
    inj_target,
    pointer,
    landed,
    keyed,
    \* the worker threads of the tokio runtime
    workers,
    \* AppIndex.apps, and the score SkimMatcherV2::fuzzy_match gives to a
    \* choice equal to the pattern (fuzzy[pattern])
    apps,
    fuzzy,
    \* the launch_application handler: its place, the request's app_name,
    \* what find_app returned, the strategies run so far with their
    \* outcomes, and the response
    launch,
    \* AudioStreamingService: the frames sent on audio_tx and whether every
    \* Sender is dropped; the forwarding task of the stream_audio call (rx,
    \* the next frame of its Receiver, the frames it forwarded) and the
    \* client of the call
    audio

ctlVars == <<keyboard_id, mouse_id, master_keyboard_id, master_pointer_id,
             locked_at, is_locked>>
devVars == <<kbFloating, mouseFloating>>
trayVars == <<control_mode, orchestrator_connected>>
taskVars == <<pc, op, attempt, result>>
histVars == <<forced, notified>>
lockVars == <<ctlVars, serviceUp, devVars, holder, agent_id, trayVars,
              hotkeyPressed, taskVars, now, wd_next, histVars>>
ringShared == <<buffer, write_pos, read_pos>>
producerVars == <<w_pc, w_len, w_write_pos, w_read_pos, w_to_write>>
consumerVars == <<r_pc, r_len, r_write_pos, r_read_pos, r_to_read, r_output>>
ringVars == <<ringShared, producerVars, consumerVars, written_total, read_log>>
agentVars == <<agent_state, stream_manager, stop_pc, managers, spawned,
               captured_total>>
flowVars == <<q1, q2, sent>>
encVars == <<hardware, frame_count, first_out>>
statVars == <<frames_captured, frames_encoded, frames_transmitted, frames_dropped>>
subVars == <<sub_state, sub_mgr, sub_pos, received, sub_from_start, skipped>>
pipeVars == <<target_macos, agentVars, is_streaming, stage, flowVars, encVars,
              statVars, subVars, dropped_seqs, stop_returned>>
coderVars == <<keyframe_interval, request_keyframe_flag, raw_seq, encoder_out>>
injectVars == <<agent, inj_agent, inj_target, pointer, landed, keyed>>
serviceVars == <<workers, apps, fuzzy, launch, audio>>
sideVars == <<coderVars, injectVars, serviceVars>>
vars == <<lockVars, ringVars, pipeVars, sideVars>>

(***************************************************************************)
(* Device discovery (input_lock.rs: init, discover_input_devices,          *)
(* discover_master_devices).  `lines` is the set of line kinds printed.    *)
(***************************************************************************)
\* first pass of discover_input_devices
FoundKeyboard(lines) == "kb" \in lines \/ "mkb" \in lines
FoundMouse(lines) == "ptr" \in lines \/ "mptr" \in lines
\* the fallback runs only when the first pass missed a device
RunsMasterDiscovery(lines) == ~FoundKeyboard(lines) \/ ~FoundMouse(lines)

discover_input_devices(lines) ==
    [keyboard_id |-> FoundKeyboard(lines),
     mouse_id |-> FoundMouse(lines),
     master_keyboard_id |-> RunsMasterDiscovery(lines) /\ "mkb" \in lines,
     master_pointer_id |-> RunsMasterDiscovery(lines) /\ "mptr" \in lines]

\* init() is Ok
InitOk(d) == d.keyboard_id /\ d.mouse_id

(***************************************************************************)
(* InputLockController: pure parts.                                        *)
(***************************************************************************)
\* a variant of should_timeout that fires as soon as a lock is recorded
should_timeout_at_once == locked_at # {}

\* a variant of should_timeout with the subtraction reversed
should_timeout_reversed == \E t \in locked_at : t - now > LockTimeout

should_timeout == \E t \in locked_at : now - t > LockTimeout

\* a variant of the retry loop's bound that is off by one
MoreAttemptsOffByOne(n) == n <= MAX_RETRIES

MoreAttempts(n) == n < MAX_RETRIES

\* the controller call an operation makes
Call(o) ==
    CASE o \in {"SetInputLockTrue", "stop_training"} -> "lock_inputs"
      [] o \in {"tray_emergency_unlock", "hotkey"} -> "emergency_unlock"
      [] OTHER -> "unlock_inputs"

\* check_emergency_hotkey(): a placeholder that answers false
check_emergency_hotkey(pressed) == FALSE
\* a variant in which the guard does not exclude
CanAcquireAlways == TRUE

\* a variant in which the guard is not handed out while the input is locked
CanAcquireWhileUnlocked == holder = NoTask /\ ~is_locked

\* a write guard can be taken
CanAcquire == holder = NoTask

(***************************************************************************)
(* Init: the state after main has built the service, the tray and the two  *)
(* background tasks.                                                       *)
(***************************************************************************)
LockInit ==
    /\ \E lines \in SUBSET LineKinds :
         LET d == discover_input_devices(lines) IN
           /\ keyboard_id = d.keyboard_id
           /\ mouse_id = d.mouse_id
           /\ master_keyboard_id = d.master_keyboard_id
           /\ master_pointer_id = d.master_pointer_id
           /\ serviceUp = InitOk(d)
    /\ locked_at = {}
    /\ is_locked = FALSE
    /\ kbFloating = FALSE
    /\ mouseFloating = FALSE
    /\ holder = NoTask
    /\ agent_id = FALSE
    /\ control_mode = "Idle"
    /\ orchestrator_connected = FALSE
    /\ hotkeyPressed = FALSE
    /\ pc = [t \in Tasks |-> IF t \in {"watchdog", "hotkey"} THEN "sleep" ELSE "idle"]
    /\ op = [t \in Tasks |-> IF t \in {"watchdog", "hotkey"} THEN t ELSE "none"]
    /\ attempt = [t \in Tasks |-> 0]
    /\ result = [t \in Tasks |-> "none"]
    /\ now = 0
    /\ wd_next = WatchdogPeriod
    /\ forced = 0
    /\ notified = 0

(***************************************************************************)
(* RingBuffer (audio/ring_buffer.rs).  The samples of the stream are       *)
(* numbered 1, 2, 3, ...: the k-th sample the buffer accepts has value k,  *)
(* and a slot never written holds 0 (vec![0.0; capacity]).                 *)
(***************************************************************************)
\* a variant of Min that takes the requested length whatever the room
MinTakesRequested(a, b) == a

Min(a, b) == IF a <= b THEN a ELSE b

\* a variant of available_read_samples whose wrapped branch counts the
\* reserved slot too
available_read_samples_off_by_one(wp, rp) ==
    IF wp >= rp THEN wp - rp ELSE Capacity - rp + wp + 1

available_read_samples(wp, rp) ==
    IF wp >= rp THEN wp - rp ELSE Capacity - rp + wp

\* a variant of available_write_space that does not reserve the slot
available_write_space_no_reserve(wp, rp) ==
    Capacity - available_read_samples(wp, rp)

\* one slot is reserved to tell full from empty
available_write_space(wp, rp) ==
    Capacity - available_read_samples(wp, rp) - 1

available == available_read_samples(write_pos, read_pos)
is_empty == available = 0
\* a variant of is_full that takes equal positions for a full buffer
is_full_when_positions_meet == write_pos = read_pos
is_full == available_write_space(write_pos, read_pos) = 0

RingInit ==
    /\ buffer = [i \in 0..(Capacity - 1) |-> 0]
    /\ write_pos = 0
    /\ read_pos = 0
    /\ w_pc = "idle"
    /\ w_len = 0
    /\ w_write_pos = 0
    /\ w_read_pos = 0
    /\ w_to_write = 0
    /\ r_pc = "idle"
    /\ r_len = 0
    /\ r_write_pos = 0
    /\ r_read_pos = 0
    /\ r_to_read = 0
    /\ r_output = <<>>
    /\ written_total = 0
    /\ read_log = <<>>

(***************************************************************************)
(* The streaming pipeline before the first StartCapture (Agent::new: no    *)
(* stream manager; the agent is registered and connected).                 *)
(***************************************************************************)
NoFrames == [s \in Subs |-> <<>>]

\* no manager yet
PipelineIdle ==
    /\ agent_state = "Connected"
    /\ stream_manager = FALSE
    /\ stop_pc = "idle"
    /\ managers = 0
    /\ spawned = 0
    /\ captured_total = 0
    /\ is_streaming = FALSE
    /\ stage = [t \in StageTasks |-> "none"]
    /\ q1 = 0
    /\ q2 = <<>>
    /\ frame_count = 0
    /\ sent = <<>>
    /\ frames_captured = 0
    /\ frames_encoded = 0
    /\ frames_transmitted = 0
    /\ frames_dropped = 0
    /\ sub_state = [s \in Subs |-> "none"]
    /\ sub_mgr = [s \in Subs |-> 0]
    /\ sub_pos = [s \in Subs |-> 0]
    /\ received = NoFrames
    /\ sub_from_start = [s \in Subs |-> FALSE]
    /\ skipped = [s \in Subs |-> {}]
    /\ dropped_seqs = {}
    /\ stop_returned = FALSE
    /\ first_out = "none"

StreamInit ==
    /\ PipelineIdle
    /\ hardware = FALSE

\* VideoToolboxEncoder::new, SoftwareEncoder::new: nothing encoded, no
\* keyframe requested
EncoderNew ==
    /\ request_keyframe_flag = FALSE
    /\ raw_seq = 0
    /\ encoder_out = <<>>

\* no injection requested
InjectInit ==
    /\ agent = FALSE
    /\ inj_agent = [t \in RpcTasks |-> FALSE]
    /\ inj_target = [t \in RpcTasks |-> 0]
    /\ pointer = 0
    /\ landed = [t \in RpcTasks |-> 0]
    /\ keyed = {}

\* no launch_application and no stream_audio call
NoLaunch == [pc |-> "idle", app_name |-> "", found |-> 0,
             details |-> [id |-> "", name |-> "", path |-> "", exec |-> ""],
             tried |-> <<>>, success |-> FALSE, error |-> <<>>]
NoAudio == [sent |-> 0, closed |-> FALSE, rx |-> "none", pos |-> 0,
            forwarded |-> 0, client |-> "none"]

\* the parts of the service the other specifications leave alone
ServiceIdle ==
    /\ workers = 1
    /\ apps = <<>>
    /\ fuzzy = <<>>
    /\ launch = NoLaunch
    /\ audio = NoAudio

\* the pipeline's encoder configuration, no injection requested
SideInit ==
    /\ keyframe_interval = KeyframeInterval
    /\ EncoderNew
    /\ InjectInit
    /\ ServiceIdle

(***************************************************************************)
(* Helpers on the per-task state.                                          *)
(***************************************************************************)
Goto(t, where) == pc' = [pc EXCEPT ![t] = where]
\* a variant of AfterAcquire in which unregister_agent forgets the unlock
AfterAcquireNoUnlockOnDisconnect(t) ==
    CASE op[t] = "UnregisterAgent" -> "post"
      [] op[t] = "watchdog" -> IF should_timeout THEN "unlock_inputs" ELSE "post"
      [] op[t] = "hotkey" -> IF is_locked THEN "emergency_unlock" ELSE "post"
      [] OTHER -> Call(op[t])

\* where a task goes once it holds the write guard
\*   unregister_agent   unlocks only if is_locked()          (main.rs 143-149)
\*   watchdog           unlocks only if should_timeout()     (main.rs 579-587)
\*   hotkey listener    emergency only if is_locked()        (main.rs 454-458)
\*   the others call the controller at once
AfterAcquire(t) ==
    CASE op[t] = "UnregisterAgent" -> IF is_locked THEN "unlock_inputs" ELSE "post"
      [] op[t] = "watchdog" -> IF should_timeout THEN "unlock_inputs" ELSE "post"
      [] op[t] = "hotkey" -> IF is_locked THEN "emergency_unlock" ELSE "post"
      [] OTHER -> Call(op[t])

\* a failed attempt: emergency_unlock propagates the error, lock_inputs and
\* unlock_inputs sleep and retry while attempt < MAX_RETRIES, then bail
AfterFailure(t) ==
    IF Call(op[t]) # "emergency_unlock" /\ MoreAttempts(attempt[t])
    THEN /\ Goto(t, "backoff")
         /\ UNCHANGED result
    ELSE /\ Goto(t, "post")
         /\ result' = [result EXCEPT ![t] = "err"]

(***************************************************************************)
(* The operator and the remote peer.                                       *)
(***************************************************************************)
\* a SetInputLock or UnregisterAgent request reaches a handler task
RpcArrive(t, o) ==
    /\ serviceUp
    /\ pc[t] = "idle"
    /\ pc' = [pc EXCEPT ![t] = "acquire"]
    /\ op' = [op EXCEPT ![t] = o]
    /\ UNCHANGED <<ctlVars, serviceUp, ringVars, pipeVars, sideVars, devVars, holder, agent_id, trayVars,
                   hotkeyPressed, attempt, result, now, wd_next, histVars>>

\* register_agent: it never touches the input lock
RegisterAgent(t) ==
    /\ serviceUp
    /\ pc[t] = "idle"
    /\ agent_id' = TRUE
    /\ orchestrator_connected' = TRUE
    /\ UNCHANGED <<ctlVars, serviceUp, ringVars, pipeVars, sideVars, devVars, holder, control_mode,
                   hotkeyPressed, taskVars, now, wd_next, histVars>>

\* the operator presses or releases Ctrl+Alt+Shift+U
OperatorHotkey ==
    /\ serviceUp
    /\ hotkeyPressed' = ~hotkeyPressed
    /\ UNCHANGED <<ctlVars, serviceUp, ringVars, pipeVars, sideVars, devVars, holder, agent_id, trayVars,
                   taskVars, now, wd_next, histVars>>

\* the items menu() offers under the current mode
MenuOffers(o) ==
    CASE o = "request_control" -> control_mode = "AiControl" /\ orchestrator_connected
      [] o = "stop_training" -> control_mode = "TrainingMode"
      [] OTHER -> TRUE

\* the operator activates a menu item
TrayClick(o) ==
    /\ serviceUp
    /\ pc["tray"] = "idle"
    /\ MenuOffers(o)
    /\ pc' = [pc EXCEPT !["tray"] =
                 IF o = "tray_emergency_unlock" THEN "acquire" ELSE "tray_check"]
    /\ op' = [op EXCEPT !["tray"] = o]
    /\ UNCHANGED <<ctlVars, serviceUp, ringVars, pipeVars, sideVars, devVars, holder, agent_id, trayVars,
                   hotkeyPressed, attempt, result, now, wd_next, histVars>>

\* request_control and stop_training look at the mode (and the connection)
\* before they take the write guard
TrayCheck ==
    /\ pc["tray"] = "tray_check"
    /\ LET go == IF op["tray"] = "request_control"
                 THEN control_mode # "TrainingMode" /\ orchestrator_connected
                 ELSE control_mode = "TrainingMode"
       IN /\ Goto("tray", IF go THEN "acquire" ELSE "idle")
          /\ op' = [op EXCEPT !["tray"] = IF go THEN op["tray"] ELSE "none"]
    /\ UNCHANGED <<ctlVars, serviceUp, ringVars, pipeVars, sideVars, devVars, holder, agent_id, trayVars,
                   hotkeyPressed, attempt, result, now, wd_next, histVars>>

(***************************************************************************)
(* The write guard.                                                        *)
(***************************************************************************)
Acquire(t) ==
    /\ pc[t] = "acquire"
    /\ CanAcquire
    /\ holder' = t
    /\ Goto(t, AfterAcquire(t))
    /\ UNCHANGED <<ctlVars, serviceUp, ringVars, pipeVars, sideVars, devVars, agent_id, trayVars,
                   hotkeyPressed, op, attempt, result, now, wd_next, histVars>>

(***************************************************************************)
(* InputLockController::lock_inputs and lock_inputs_attempt.               *)
(***************************************************************************)
\* a variant of lock_inputs without the duplicate-lock check
lock_inputs_unguarded(t) ==
    /\ pc[t] = "lock_inputs"
    /\ Goto(t, "float_kb")
    /\ attempt' = [attempt EXCEPT ![t] = 1]
    /\ UNCHANGED <<ctlVars, serviceUp, ringVars, pipeVars, sideVars, devVars, holder, agent_id, trayVars,
                   hotkeyPressed, op, result, now, wd_next, histVars>>

\* entry: a duplicate lock returns Ok at once, else the first attempt starts
lock_inputs(t) ==
    /\ pc[t] = "lock_inputs"
    /\ IF is_locked
       THEN /\ Goto(t, "post")
            /\ result' = [result EXCEPT ![t] = "ok"]
            /\ UNCHANGED attempt
       ELSE /\ Goto(t, "float_kb")
            /\ attempt' = [attempt EXCEPT ![t] = 1]
            /\ UNCHANGED result
    /\ UNCHANGED <<ctlVars, serviceUp, ringVars, pipeVars, sideVars, devVars, holder, agent_id, trayVars,
                   hotkeyPressed, op, now, wd_next, histVars>>

\* lock_inputs_attempt, first command: xinput float <keyboard>
FloatKeyboard(t) ==
    /\ pc[t] = "float_kb"
    /\ IF keyboard_id
       THEN \E ok \in BOOLEAN :
              IF ok
              THEN /\ kbFloating' = TRUE
                   /\ Goto(t, "float_mouse")
                   /\ UNCHANGED result
              ELSE /\ AfterFailure(t)
                   /\ UNCHANGED kbFloating
       ELSE /\ Goto(t, "float_mouse")
            /\ UNCHANGED <<kbFloating, result>>
    /\ UNCHANGED <<ctlVars, serviceUp, ringVars, pipeVars, sideVars, mouseFloating, holder, agent_id, trayVars,
                   hotkeyPressed, op, attempt, now, wd_next, histVars>>

\* what a successful lock attempt records: is_locked, locked_at = now
LockSucceeded(t) ==
    /\ is_locked' = TRUE
    /\ locked_at' = {now}
    /\ forced' = 0
    /\ notified' = 0
    /\ result' = [result EXCEPT ![t] = "ok"]
    /\ Goto(t, "post")

\* lock_inputs_attempt, second command: xinput float <mouse>; then Ok
FloatMouse(t) ==
    /\ pc[t] = "float_mouse"
    /\ IF mouse_id
       THEN \E ok \in BOOLEAN :
              IF ok
              THEN /\ mouseFloating' = TRUE
                   /\ LockSucceeded(t)
              ELSE /\ AfterFailure(t)
                   /\ UNCHANGED <<mouseFloating, is_locked, locked_at, histVars>>
       ELSE /\ LockSucceeded(t)
            /\ UNCHANGED mouseFloating
    /\ UNCHANGED <<keyboard_id, mouse_id, master_keyboard_id, master_pointer_id,
                   serviceUp, ringVars, pipeVars, sideVars, kbFloating, holder, agent_id, trayVars,
                   hotkeyPressed, op, attempt, now, wd_next>>

\* the 100 ms sleep between two attempts, then the next attempt
Backoff(t) ==
    /\ pc[t] = "backoff"
    /\ attempt' = [attempt EXCEPT ![t] = attempt[t] + 1]
    /\ Goto(t, IF Call(op[t]) = "lock_inputs" THEN "float_kb" ELSE "reattach_kb")
    /\ UNCHANGED <<ctlVars, serviceUp, ringVars, pipeVars, sideVars, devVars, holder, agent_id, trayVars,
                   hotkeyPressed, op, result, now, wd_next, histVars>>

(***************************************************************************)
(* InputLockController::unlock_inputs, emergency_unlock and                *)
(* unlock_inputs_attempt.                                                  *)
(***************************************************************************)
unlock_inputs(t) ==
    /\ pc[t] = "unlock_inputs"
    /\ IF ~is_locked
       THEN /\ Goto(t, "post")
            /\ result' = [result EXCEPT ![t] = "ok"]
            /\ UNCHANGED attempt
       ELSE /\ Goto(t, "reattach_kb")
            /\ attempt' = [attempt EXCEPT ![t] = 1]
            /\ UNCHANGED result
    /\ UNCHANGED <<ctlVars, serviceUp, ringVars, pipeVars, sideVars, devVars, holder, agent_id, trayVars,
                   hotkeyPressed, op, now, wd_next, histVars>>
\* a variant of emergency_unlock that leaves is_locked and locked_at alone
emergency_unlock_keeps_state(t) ==
    /\ pc[t] = "emergency_unlock"
    /\ attempt' = [attempt EXCEPT ![t] = 1]
    /\ Goto(t, "reattach_kb")
    /\ UNCHANGED <<ctlVars, serviceUp, ringVars, pipeVars, sideVars, devVars, holder, agent_id, trayVars,
                   hotkeyPressed, op, result, now, wd_next, histVars>>

\* emergency_unlock clears the state first, then makes its one attempt
emergency_unlock(t) ==
    /\ pc[t] = "emergency_unlock"
    /\ is_locked' = FALSE
    /\ locked_at' = {}
    /\ attempt' = [attempt EXCEPT ![t] = 1]
    /\ Goto(t, "reattach_kb")
    /\ UNCHANGED <<keyboard_id, mouse_id, master_keyboard_id, master_pointer_id,
                   serviceUp, ringVars, pipeVars, sideVars, devVars, holder, agent_id, trayVars,
                   hotkeyPressed, op, result, now, wd_next, histVars>>

\* unlock_inputs_attempt, first command: xinput reattach <keyboard> <master>,
\* run only when both ids are known
ReattachKeyboard(t) ==
    /\ pc[t] = "reattach_kb"
    /\ IF keyboard_id /\ master_keyboard_id
       THEN \E ok \in BOOLEAN :
              IF ok
              THEN /\ kbFloating' = FALSE
                   /\ Goto(t, "reattach_mouse")
                   /\ UNCHANGED result
              ELSE /\ AfterFailure(t)
                   /\ UNCHANGED kbFloating
       ELSE /\ Goto(t, "reattach_mouse")
            /\ UNCHANGED <<kbFloating, result>>
    /\ UNCHANGED <<ctlVars, serviceUp, ringVars, pipeVars, sideVars, mouseFloating, holder, agent_id, trayVars,
                   hotkeyPressed, op, attempt, now, wd_next, histVars>>

\* what a successful unlock attempt records; emergency_unlock has cleared
\* the state before the attempt
UnlockSucceeded(t) ==
    /\ IF Call(op[t]) = "unlock_inputs"
       THEN /\ is_locked' = FALSE
            /\ locked_at' = {}
            /\ forced' = IF op[t] = "watchdog" THEN forced + 1 ELSE forced
       ELSE UNCHANGED <<is_locked, locked_at, forced>>
    /\ result' = [result EXCEPT ![t] = "ok"]
    /\ Goto(t, "post")

\* unlock_inputs_attempt, second command: xinput reattach <mouse> <master>
ReattachMouse(t) ==
    /\ pc[t] = "reattach_mouse"
    /\ IF mouse_id /\ master_pointer_id
       THEN \E ok \in BOOLEAN :
              IF ok
              THEN /\ mouseFloating' = FALSE
                   /\ UnlockSucceeded(t)
              ELSE /\ AfterFailure(t)
                   /\ UNCHANGED <<mouseFloating, is_locked, locked_at, forced>>
       ELSE /\ UnlockSucceeded(t)
            /\ UNCHANGED mouseFloating
    /\ UNCHANGED <<keyboard_id, mouse_id, master_keyboard_id, master_pointer_id,
                   serviceUp, ringVars, pipeVars, sideVars, kbFloating, holder, agent_id, trayVars,
                   hotkeyPressed, op, attempt, now, wd_next, notified>>

(***************************************************************************)
(* The tail of each handler, after the controller call: tray update,       *)
(* notification, and the write guard dropped at the end of the function.   *)
(***************************************************************************)
\* the mode the handler sets in the tray, given the Result of its call
ModeAfter(o, r) ==
    CASE o = "SetInputLockTrue" /\ r = "ok" -> "AiControl"
      [] o = "SetInputLockFalse" /\ r = "ok" -> "TrainingMode"
      [] o = "UnregisterAgent" -> "Idle"
      [] o = "watchdog" /\ r = "ok" -> "Idle"
      [] o = "request_control" /\ r = "ok" -> "TrainingMode"
      [] o = "stop_training" /\ r = "ok" -> "AiControl"
      [] o = "tray_emergency_unlock" /\ r = "ok" -> "Idle"
      [] OTHER -> control_mode
\* a variant that notifies at every poll
NotifiesTimeoutAlways(o, r) == o = "watchdog"

\* the watchdog calls notify_lock_timeout after a successful auto-unlock
NotifiesTimeout(o, r) == o = "watchdog" /\ r = "ok"

Post(t) ==
    /\ pc[t] = "post"
    /\ control_mode' = ModeAfter(op[t], result[t])
    /\ IF op[t] = "UnregisterAgent"
       THEN /\ agent_id' = FALSE
            /\ orchestrator_connected' = FALSE
       ELSE UNCHANGED <<agent_id, orchestrator_connected>>
    /\ notified' = IF NotifiesTimeout(op[t], result[t]) THEN notified + 1 ELSE notified
    /\ wd_next' = IF t = "watchdog" THEN now + WatchdogPeriod ELSE wd_next
    /\ holder' = NoTask
    /\ Goto(t, IF t \in {"watchdog", "hotkey"} THEN "sleep" ELSE "idle")
    \* the call's locals die with the handler
    /\ op' = [op EXCEPT ![t] = IF t \in {"watchdog", "hotkey"} THEN t ELSE "none"]
    /\ attempt' = [attempt EXCEPT ![t] = 0]
    /\ result' = [result EXCEPT ![t] = "none"]
    /\ UNCHANGED <<ctlVars, serviceUp, ringVars, pipeVars, sideVars, devVars, hotkeyPressed, now, forced>>

(***************************************************************************)
(* The two background tasks (main.rs: start_watchdog_timer,                *)
(* start_emergency_hotkey_listener).                                       *)
(***************************************************************************)
\* the watchdog's 5 s sleep is over
WatchdogWake ==
    /\ serviceUp
    /\ pc["watchdog"] = "sleep"
    /\ now >= wd_next
    /\ pc' = [pc EXCEPT !["watchdog"] = "acquire"]
    /\ UNCHANGED <<ctlVars, serviceUp, ringVars, pipeVars, sideVars, devVars, holder, agent_id, trayVars,
                   hotkeyPressed, op, attempt, result, now, wd_next, histVars>>

\* the listener's 100 ms sleep is over
HotkeyWake ==
    /\ serviceUp
    /\ pc["hotkey"] = "sleep"
    /\ pc' = [pc EXCEPT !["hotkey"] = "check"]
    /\ UNCHANGED <<ctlVars, serviceUp, ringVars, pipeVars, sideVars, devVars, holder, agent_id, trayVars,
                   hotkeyPressed, op, attempt, result, now, wd_next, histVars>>

\* if check_emergency_hotkey().await { take the guard ... }
HotkeyCheck ==
    /\ pc["hotkey"] = "check"
    /\ Goto("hotkey", IF check_emergency_hotkey(hotkeyPressed) THEN "acquire" ELSE "sleep")
    /\ UNCHANGED <<ctlVars, serviceUp, ringVars, pipeVars, sideVars, devVars, holder, agent_id, trayVars,
                   hotkeyPressed, op, attempt, result, now, wd_next, histVars>>

(***************************************************************************)
(* Time.  One tick is one watchdog period.  The watchdog's poll is urgent: *)
(* the clock does not pass a poll that is due or under way (the handlers'  *)
(* own delays, 100 ms back-offs and xinput runs, are shorter than a tick). *)
(***************************************************************************)
Tick ==
    /\ serviceUp
    /\ now < MaxTime
    /\ pc["watchdog"] = "sleep"
    /\ now < wd_next
    /\ now' = now + 1
    /\ UNCHANGED <<ctlVars, serviceUp, ringVars, pipeVars, sideVars, devVars, holder, agent_id, trayVars,
                   hotkeyPressed, taskVars, wd_next, histVars>>

LockNext ==
    \/ \E t \in RpcTasks : \E o \in RpcOps : RpcArrive(t, o)
    \/ \E t \in RpcTasks : RegisterAgent(t)
    \/ OperatorHotkey
    \/ \E o \in TrayOps : TrayClick(o)
    \/ TrayCheck
    \/ \E t \in Tasks : Acquire(t)
    \/ \E t \in Tasks : lock_inputs(t)
    \/ \E t \in Tasks : FloatKeyboard(t)
    \/ \E t \in Tasks : FloatMouse(t)
    \/ \E t \in Tasks : Backoff(t)
    \/ \E t \in Tasks : unlock_inputs(t)
    \/ \E t \in Tasks : emergency_unlock(t)
    \/ \E t \in Tasks : ReattachKeyboard(t)
    \/ \E t \in Tasks : ReattachMouse(t)
    \/ \E t \in Tasks : Post(t)
    \/ WatchdogWake
    \/ HotkeyWake
    \/ HotkeyCheck
    \/ Tick

\* the bridge at startup, its ring buffer untouched
BridgeInit ==
    /\ LockInit
    /\ RingInit
    /\ StreamInit
    /\ SideInit
    /\ target_macos = FALSE

Spec == BridgeInit /\ [][LockNext]_vars

(***************************************************************************)
(* Properties of the bridge, checked under Spec.                           *)
(***************************************************************************)
\* the task is inside a controller call: between the entry of lock_inputs,
\* unlock_inputs or emergency_unlock and its return
InAttempt(t) ==
    pc[t] \in {"lock_inputs", "float_kb", "float_mouse", "backoff",
               "unlock_inputs", "emergency_unlock", "reattach_kb", "reattach_mouse"}

\* the handler of task t returns in this step
Returns(t) == pc[t] = "post" /\ pc'[t] # "post"

\* C1: when UnregisterAgent returns the lock state is Unlocked (is_locked is
\* false and locked_at is None), whatever it was when the call arrived.
C1_UnregisterLeavesUnlocked ==
    [][\A t \in RpcTasks :
         (op[t] = "UnregisterAgent" /\ Returns(t))
            => (~is_locked' /\ locked_at' = {})]_lockVars

\* an UnregisterAgent that found the input locked and has unlocked it
C1_Witness ==
    \E t \in RpcTasks :
       /\ op[t] = "UnregisterAgent"
       /\ pc[t] = "post"
       /\ attempt[t] = 1
       /\ result[t] = "ok"
       /\ kbFloating

\* C2: emergency_unlock never retries (one attempt at most, no back-off),
\* has cleared the lock state before its attempt, and returns Ok or Err with
\* the state Unlocked.
C2_EmergencyUnlockDominates ==
    \A t \in Tasks :
       Call(op[t]) = "emergency_unlock" =>
          /\ attempt[t] <= 1
          /\ pc[t] # "backoff"
          /\ (pc[t] \in {"reattach_kb", "reattach_mouse"} \/ (pc[t] = "post" /\ attempt[t] = 1))
                => (~is_locked /\ locked_at = {})
          /\ (pc[t] = "post" /\ attempt[t] = 1) => result[t] \in {"ok", "err"}

\* the tray's emergency unlock has run while the AI held control
C2_Witness ==
    /\ op["tray"] = "tray_emergency_unlock"
    /\ pc["tray"] = "post"
    /\ result["tray"] = "ok"
    /\ control_mode = "AiControl"
    /\ kbFloating
    /\ mouseFloating

\* C3: a lock is never older than timeout + one watchdog period: the
\* watchdog has forced the unlock by then.
C3_WatchdogBound ==
    is_locked =>
       /\ locked_at # {}
       /\ \A t \in locked_at : now - t <= LockTimeout + WatchdogPeriod

\* the watchdog has forced an unlock
C3_Witness == forced = 1 /\ ~is_locked /\ pc["watchdog"] = "post"

\* C4: when SetInputLock returns, successful or failed, keyboard and pointer
\* are both detached or both attached.
C4_NeverHalfDetached ==
    \A t \in RpcTasks :
       (op[t] \in {"SetInputLockTrue", "SetInputLockFalse"} /\ pc[t] = "post")
          => (kbFloating = mouseFloating)

\* the lock episode that ends in this step has exceeded the timeout
EpisodeExceeded == \E t \in locked_at : now - t > LockTimeout

\* C5 as stated: every lock episode that exceeds the timeout ends with one
\* forced unlock and one lock-timeout notification, every other with none.
C5_ExactlyOncePerExceededEpisode ==
    /\ [][(is_locked /\ ~is_locked')
            => (forced' = IF EpisodeExceeded THEN 1 ELSE 0)]_lockVars
    /\ [](pc["watchdog"] \in {"sleep", "acquire"} => notified = forced)

\* C5 as amended: at most one forced unlock per lock episode; an episode the
\* watchdog ends has exceeded the timeout and gets one forced unlock and one
\* call of notify_lock_timeout; an episode ended by anyone else gets none.
C5_OncePerEpisodeEndedByWatchdog ==
    /\ [][(is_locked /\ ~is_locked')
            => /\ forced' = (IF holder = "watchdog" THEN 1 ELSE 0)
               /\ (holder = "watchdog" => EpisodeExceeded)]_lockVars
    /\ [](/\ forced <= 1
          /\ notified <= forced
          /\ (pc["watchdog"] \in {"sleep", "acquire"} => notified = forced))

\* the watchdog has ended an episode and notified
C5_Witness == forced = 1 /\ notified = 1 /\ ~is_locked

\* C6: each of the two emergency paths, once the operator triggers it while
\* the input is locked, goes on to emergency_unlock: the hotkey listener's
\* poll that sees the keys down takes the guard, and so does the tray item.
C6_BothPathsReachEmergencyUnlock ==
    [][/\ (pc["hotkey"] = "check" /\ hotkeyPressed /\ is_locked
              /\ pc'["hotkey"] # "check")
            => pc'["hotkey"] = "acquire"
       /\ (pc["tray"] = "idle" /\ op'["tray"] = "tray_emergency_unlock")
            => pc'["tray"] = "acquire"]_lockVars

\* C7: at most one task is inside a controller call.
C7_OneAttemptInFlight ==
    \A t1, t2 \in Tasks : (InAttempt(t1) /\ InAttempt(t2)) => t1 = t2

\* one task sleeps between two attempts while another waits for the guard
C7_Witness ==
    \E t1, t2 \in Tasks :
       t1 # t2 /\ pc[t1] = "backoff" /\ pc[t2] = "acquire"

\* C8: lock_inputs and unlock_inputs make at most MAX_RETRIES attempts, sleep
\* only before a further attempt, and return Err exactly after the failure
\* of attempt MAX_RETRIES; a successful attempt ends the call.
C8_ThreeAttempts ==
    \A t \in Tasks :
       /\ attempt[t] <= MAX_RETRIES
       /\ pc[t] = "backoff" => attempt[t] < MAX_RETRIES
       /\ (pc[t] = "post" /\ result[t] = "err" /\ Call(op[t]) # "emergency_unlock")
             => attempt[t] = MAX_RETRIES
       /\ (pc[t] = "post" /\ attempt[t] >= 1 /\ Call(op[t]) = "lock_inputs")
             => (result[t] = "ok" <=> is_locked)

\* a lock that failed after three attempts, and one that succeeded at the second
C8_Witness ==
    \E t1, t2 \in RpcTasks :
       /\ pc[t1] = "post" /\ result[t1] = "err" /\ attempt[t1] = MAX_RETRIES
       /\ pc[t2] = "acquire" /\ op[t2] = "SetInputLockTrue"

\* C9: lock_inputs while Locked and unlock_inputs while Unlocked return Ok
\* and change nothing (no attempt, no device command, locked_at kept), and
\* locked_at never changes while the state stays Locked.
C9_LockIdempotence ==
    [][/\ \A t \in Tasks :
            /\ (pc[t] = "lock_inputs" /\ is_locked /\ pc'[t] # pc[t])
                  => /\ pc'[t] = "post" /\ result'[t] = "ok" /\ attempt'[t] = 0
                     /\ UNCHANGED <<is_locked, locked_at, kbFloating, mouseFloating>>
            /\ (pc[t] = "unlock_inputs" /\ ~is_locked /\ pc'[t] # pc[t])
                  => /\ pc'[t] = "post" /\ result'[t] = "ok" /\ attempt'[t] = 0
                     /\ UNCHANGED <<is_locked, locked_at, kbFloating, mouseFloating>>
       /\ (is_locked /\ is_locked') => locked_at' = locked_at]_lockVars

\* a duplicate lock and a duplicate unlock have returned
C9_Witness ==
    \E t \in Tasks :
       /\ pc[t] = "post" /\ attempt[t] = 0 /\ result[t] = "ok"
       /\ Call(op[t]) = "lock_inputs" /\ is_locked /\ now > 0

(***************************************************************************)
(* RingBuffer::write, by the one producer.  Each atomic load, each memcpy  *)
(* and the final store is a step.                                          *)
(***************************************************************************)
\* the k-th sample (k from 0) of the slice handed to the write in progress
Sample(k) == written_total + k + 1

\* the slots a transfer of n samples from position start touches
Slots(start, n) == {(start + k) % Capacity : k \in 0..(n - 1)}

WriteCall(len) ==
    /\ w_pc = "idle"
    /\ written_total + len <= MaxSamples
    /\ w_len' = len
    /\ w_pc' = "load_write_pos"
    /\ UNCHANGED <<lockVars, pipeVars, sideVars, ringShared, w_write_pos, w_read_pos, w_to_write,
                   consumerVars, written_total, read_log>>

WriteLoadWritePos ==
    /\ w_pc = "load_write_pos"
    /\ w_write_pos' = write_pos
    /\ w_pc' = "load_read_pos"
    /\ UNCHANGED <<lockVars, pipeVars, sideVars, ringShared, w_len, w_read_pos, w_to_write,
                   consumerVars, written_total, read_log>>

\* load read_pos, compute to_write; return 0 if nothing fits
WriteLoadReadPos ==
    /\ w_pc = "load_read_pos"
    /\ LET to_write == Min(w_len, available_write_space(w_write_pos, read_pos)) IN
         IF to_write = 0
         THEN /\ w_pc' = "idle"
              /\ w_len' = 0
              /\ w_write_pos' = 0
              /\ UNCHANGED <<w_read_pos, w_to_write>>
         ELSE /\ w_pc' = "copy"
              /\ w_read_pos' = read_pos
              /\ w_to_write' = to_write
              /\ UNCHANGED <<w_len, w_write_pos>>
    /\ UNCHANGED <<lockVars, pipeVars, sideVars, ringShared, consumerVars, written_total, read_log>>

\* the contiguous copy, or the first part of a split write
WriteCopy ==
    /\ w_pc = "copy"
    /\ LET end == w_write_pos + w_to_write
           n == IF end <= Capacity THEN w_to_write ELSE Capacity - w_write_pos
       IN /\ buffer' = [i \in 0..(Capacity - 1) |->
                          IF w_write_pos <= i /\ i < w_write_pos + n
                          THEN Sample(i - w_write_pos) ELSE buffer[i]]
          /\ w_pc' = IF end <= Capacity THEN "store" ELSE "copy_second"
    /\ UNCHANGED <<lockVars, pipeVars, sideVars, write_pos, read_pos, w_len, w_write_pos, w_read_pos,
                   w_to_write, consumerVars, written_total, read_log>>

\* the second part of a split write, to the start of the buffer
WriteCopySecond ==
    /\ w_pc = "copy_second"
    /\ LET first_part == Capacity - w_write_pos
           second_part == w_to_write - first_part
       IN buffer' = [i \in 0..(Capacity - 1) |->
                       IF i < second_part THEN Sample(first_part + i) ELSE buffer[i]]
    /\ w_pc' = "store"
    /\ UNCHANGED <<lockVars, pipeVars, sideVars, write_pos, read_pos, w_len, w_write_pos, w_read_pos,
                   w_to_write, consumerVars, written_total, read_log>>

\* store write_pos (Release) and return to_write
WriteStore ==
    /\ w_pc = "store"
    /\ write_pos' = (w_write_pos + w_to_write) % Capacity
    /\ written_total' = written_total + w_to_write
    /\ w_pc' = "idle"
    /\ w_len' = 0
    /\ w_write_pos' = 0
    /\ w_read_pos' = 0
    /\ w_to_write' = 0
    /\ UNCHANGED <<lockVars, pipeVars, sideVars, buffer, read_pos, consumerVars, read_log>>

(***************************************************************************)
(* RingBuffer::read, by the one consumer.                                  *)
(***************************************************************************)
ReadCall(len) ==
    /\ r_pc = "idle"
    /\ r_len' = len
    /\ r_pc' = "load_write_pos"
    /\ UNCHANGED <<lockVars, pipeVars, sideVars, ringShared, producerVars, r_write_pos, r_read_pos,
                   r_to_read, r_output, written_total, read_log>>

ReadLoadWritePos ==
    /\ r_pc = "load_write_pos"
    /\ r_write_pos' = write_pos
    /\ r_pc' = "load_read_pos"
    /\ UNCHANGED <<lockVars, pipeVars, sideVars, ringShared, producerVars, r_len, r_read_pos,
                   r_to_read, r_output, written_total, read_log>>

\* load read_pos, compute to_read; return 0 if nothing is there
ReadLoadReadPos ==
    /\ r_pc = "load_read_pos"
    /\ LET to_read == Min(r_len, available_read_samples(r_write_pos, read_pos)) IN
         IF to_read = 0
         THEN /\ r_pc' = "idle"
              /\ r_len' = 0
              /\ r_write_pos' = 0
              /\ UNCHANGED <<r_read_pos, r_to_read>>
         ELSE /\ r_pc' = "copy"
              /\ r_read_pos' = read_pos
              /\ r_to_read' = to_read
              /\ UNCHANGED <<r_len, r_write_pos>>
    /\ UNCHANGED <<lockVars, pipeVars, sideVars, ringShared, producerVars, r_output, written_total, read_log>>

\* the contiguous copy, or the first part of a split read
ReadCopy ==
    /\ r_pc = "copy"
    /\ LET end == r_read_pos + r_to_read
           n == IF end <= Capacity THEN r_to_read ELSE Capacity - r_read_pos
       IN /\ r_output' = [k \in 1..n |-> buffer[r_read_pos + k - 1]]
          /\ r_pc' = IF end <= Capacity THEN "store" ELSE "copy_second"
    /\ UNCHANGED <<lockVars, pipeVars, sideVars, ringShared, producerVars, r_len, r_write_pos,
                   r_read_pos, r_to_read, written_total, read_log>>

\* the second part of a split read, from the start of the buffer
ReadCopySecond ==
    /\ r_pc = "copy_second"
    /\ LET first_part == Capacity - r_read_pos
           second_part == r_to_read - first_part
       IN r_output' = r_output \o [k \in 1..second_part |-> buffer[k - 1]]
    /\ r_pc' = "store"
    /\ UNCHANGED <<lockVars, pipeVars, sideVars, ringShared, producerVars, r_len, r_write_pos,
                   r_read_pos, r_to_read, written_total, read_log>>

\* store read_pos (Release) and return to_read
ReadStore ==
    /\ r_pc = "store"
    /\ read_pos' = (r_read_pos + r_to_read) % Capacity
    /\ read_log' = read_log \o r_output
    /\ r_pc' = "idle"
    /\ r_len' = 0
    /\ r_write_pos' = 0
    /\ r_read_pos' = 0
    /\ r_to_read' = 0
    /\ r_output' = <<>>
    /\ UNCHANGED <<lockVars, pipeVars, sideVars, buffer, write_pos, producerVars, written_total>>

RingNext ==
    \/ \E len \in 0..MaxChunk : WriteCall(len)
    \/ WriteLoadWritePos
    \/ WriteLoadReadPos
    \/ WriteCopy
    \/ WriteCopySecond
    \/ WriteStore
    \/ \E len \in 0..MaxChunk : ReadCall(len)
    \/ ReadLoadWritePos
    \/ ReadLoadReadPos
    \/ ReadCopy
    \/ ReadCopySecond
    \/ ReadStore

\* the ring buffer of a started bridge
RingSpecInit ==
    /\ LockInit
    /\ serviceUp = TRUE
    /\ RingInit
    /\ StreamInit
    /\ SideInit
    /\ target_macos = FALSE

RingSpec == RingSpecInit /\ [][RingNext]_vars

(***************************************************************************)
(* Properties of the ring buffer, checked under RingSpec.                  *)
(***************************************************************************)
\* the slots the producer is writing, and those the consumer is reading
ProducerSlots ==
    IF w_pc \in {"copy", "copy_second"} THEN Slots(w_write_pos, w_to_write) ELSE {}
ConsumerSlots ==
    IF r_pc \in {"copy", "copy_second"} THEN Slots(r_read_pos, r_to_read) ELSE {}

\* C10: the samples come out in the order they went in, none lost,
\* duplicated or overwritten before being read (the consumer never reads a
\* slot the producer is writing), and when no call is in progress the sum of
\* write's returns minus the sum of read's returns is available().
C10_RoundTrip ==
    /\ read_log = [k \in 1..Len(read_log) |-> k]
    /\ r_pc = "store" =>
          r_output = [k \in 1..r_to_read |-> Len(read_log) + k]
    /\ ProducerSlots \cap ConsumerSlots = {}
    /\ (w_pc = "idle" /\ r_pc = "idle") =>
          written_total - Len(read_log) = available

\* a read split across the wrap boundary is complete while a write is in
\* progress, after the buffer has gone round
C10_Witness ==
    /\ r_pc = "store"
    /\ r_read_pos + r_to_read > Capacity
    /\ w_pc \in {"copy", "copy_second", "store"}
    /\ Len(read_log) >= 2

(***************************************************************************)
(* RingBuffer::clear.  It stores read_pos, so it belongs to the consumer   *)
(* side of the single-producer single-consumer buffer: the consumer calls  *)
(* it between two reads, while the producer may be inside write.           *)
(***************************************************************************)
ClearLoadWritePos ==
    /\ r_pc = "idle"
    /\ r_write_pos' = write_pos
    /\ r_pc' = "clear"
    /\ UNCHANGED <<lockVars, pipeVars, sideVars, ringShared, producerVars, r_len, r_read_pos,
                   r_to_read, r_output, written_total, read_log>>

ClearStore ==
    /\ r_pc = "clear"
    /\ read_pos' = r_write_pos
    /\ r_pc' = "idle"
    /\ r_write_pos' = 0
    /\ UNCHANGED <<lockVars, pipeVars, sideVars, buffer, write_pos, producerVars, r_len, r_read_pos,
                   r_to_read, r_output, written_total, read_log>>

RingClearNext ==
    \/ RingNext
    \/ ClearLoadWritePos
    \/ ClearStore

RingClearSpec == RingSpecInit /\ [][RingClearNext]_vars

(***************************************************************************)
(* Properties of the ring buffer with clear, checked under RingClearSpec.  *)
(***************************************************************************)
\* C11: whatever writes, reads and clears have happened, one slot stays
\* reserved: the readable count and the writable count are both in
\* 0..Capacity-1 and add up to Capacity-1.
C11_OneSlotReserved ==
    LET readable == available_read_samples(write_pos, read_pos)
        writable == available_write_space(write_pos, read_pos)
    IN /\ readable \in 0..(Capacity - 1)
       /\ writable \in 0..(Capacity - 1)
       /\ readable + writable = Capacity - 1

\* after a read and a clear (samples were discarded), the buffer has been
\* filled again across the wrap boundary
C11_Witness ==
    /\ w_pc = "idle"
    /\ r_pc = "idle"
    /\ Len(read_log) > 0
    /\ written_total - Len(read_log) > available
    /\ write_pos < read_pos
    /\ available_write_space(write_pos, read_pos) = 0

\* C12: is_full() holds exactly when available() is Capacity-1, and
\* is_empty() exactly when available() is 0.
C12_Boundary ==
    /\ is_full <=> (available = Capacity - 1)
    /\ is_empty <=> (available = 0)

\* a clear is in progress on a full buffer (its store makes it empty)
C12_Witness ==
    /\ is_full
    /\ r_pc = "clear"
    /\ r_write_pos = write_pos

\* the smaller of the requested length and the room there is
Fits(requested, room) == IF requested <= room THEN requested ELSE room

\* C13: write returns the number of samples it wrote, the smaller of
\* samples.len() and the free space (as of its load of read_pos), so less
\* than requested only when the rest would overflow, and 0 when full; read
\* returns the number of samples it produced, the smaller of output.len()
\* and available() (as of its load of write_pos), so less than requested
\* only on underflow.
C13_ReturnsWhatFits ==
    [][/\ (w_pc = "load_read_pos" /\ w_pc' # w_pc) =>
            LET fit == Fits(w_len, available_write_space(write_pos, read_pos)) IN
              IF fit = 0
              THEN w_pc' = "idle" /\ written_total' = written_total
                                  /\ ringShared' = ringShared
              ELSE w_pc' = "copy" /\ w_to_write' = fit
       /\ (w_pc = "store" /\ w_pc' = "idle") =>
            /\ w_to_write = Fits(w_len, available_write_space(write_pos, w_read_pos))
            /\ written_total' = written_total + w_to_write
            /\ available_read_samples(write_pos', read_pos') = available + w_to_write
            /\ \A k \in 0..(w_to_write - 1) :
                  buffer[(write_pos + k) % Capacity] = Sample(k)
       /\ (r_pc = "load_read_pos" /\ r_pc' # r_pc) =>
            LET fit == Fits(r_len, available_read_samples(r_write_pos, read_pos)) IN
              /\ fit <= available
              /\ IF fit = 0
                 THEN r_pc' = "idle" /\ read_log' = read_log
                                     /\ ringShared' = ringShared
                 ELSE r_pc' = "copy" /\ r_to_read' = fit
       /\ (r_pc = "store" /\ r_pc' = "idle") =>
            /\ r_to_read = Fits(r_len, available_read_samples(r_write_pos, read_pos))
            /\ Len(r_output) = r_to_read
            /\ read_log' = read_log \o r_output
            /\ available_read_samples(write_pos', read_pos') = available - r_to_read
      ]_vars

\* a write cut short by overflow and a read cut short by underflow are both
\* about to return
C13_Witness ==
    /\ w_pc = "store"
    /\ 0 < w_to_write /\ w_to_write < w_len
    /\ r_pc = "store"
    /\ r_to_read < r_len

(***************************************************************************)
(* The streaming pipeline.  The model follows the StreamManager the agent  *)
(* created last: each Agent::start_capture builds a manager of its own     *)
(* (flag, queues, broadcast channel, counters), so managers share nothing. *)
(* A manager that start_capture replaced keeps running, but its frames are *)
(* no longer followed: its subscribers stay attached to it and receive     *)
(* nothing more here.                                                      *)
(***************************************************************************)
Exited(t) == stage[t] \in {"ok", "err"}
GoStage(t, where) == stage' = [stage EXCEPT ![t] = where]

\* the broadcast receivers of the manager's channel that are alive
Receivers == {s \in Subs : sub_state[s] = "open" /\ sub_mgr[s] = managers}

\* a variant of NextFrameCount that forgets to count the frame
NextFrameCountStuck(fc) == fc

\* self.frame_count += 1, the first statement of encode
NextFrameCount(fc) == fc + 1

\* SoftwareEncoder::encode, fc being frame_count after the increment and k
\* config.keyframe_interval
software_is_keyframe(fc, k) == fc % k = 1

\* SoftwareEncoder::encode in the pipeline
software_encode(fc) ==
    [sequence |-> fc, is_keyframe |-> software_is_keyframe(fc, KeyframeInterval)]

\* VideoToolboxEncoder::encode when it succeeds: the sequence is the frame
\* count, the keyframe flag is the one the compression session reports; the
\* session opens with a keyframe and emits one every MaxKeyFrameInterval
\* outputs (configure_session), `outputs` being its earlier outputs
videotoolbox_is_keyframe(outputs, k) == outputs % k = 0

\* VideoToolboxEncoder::encode in the pipeline
videotoolbox_encode(fc, outputs) ==
    [sequence |-> fc,
     is_keyframe |-> videotoolbox_is_keyframe(outputs, KeyframeInterval)]

\* mpsc try_send: the frame is queued unless the queue is full or its
\* receiving task has gone
CanSend(len, receiver) == len < MaxQueue /\ ~Exited(receiver)

\* StreamManager::start on a manager whose flag is `streaming`: nothing
\* happens if it is set; otherwise the flag is set, the two queues are
\* created and the three tasks spawned
start(streaming) ==
    IF streaming
    THEN UNCHANGED <<is_streaming, stage, q1, q2, spawned>>
    ELSE /\ is_streaming' = TRUE
         /\ q1' = 0
         /\ q2' = <<>>
         /\ stage' = [t \in StageTasks |->
                        IF t = "transmit" THEN "loop" ELSE "spawned"]
         /\ spawned' = spawned + 3

\* Agent::start_capture: a new StreamManager (StreamManager::new: a new
\* broadcast channel, the flag false, the counters 0) is started and put in
\* the slot; the manager that was there is dropped without being stopped.
\* The calls of a manager that was stopped before get Closed after the
\* frames left to them and are ended here; the calls of a manager replaced
\* while it streams stay open on its channel, which its transmit task, still
\* running, keeps from closing.
StartCapture ==
    /\ stop_pc = "idle"
    /\ managers < MaxStarts
    /\ agent_state' = "Capturing"
    /\ managers' = managers + 1
    /\ stream_manager' = TRUE
    /\ start(FALSE)
    /\ sent' = <<>>
    /\ hardware' = FALSE
    /\ frame_count' = 0
    /\ first_out' = "none"
    /\ frames_captured' = 0
    /\ frames_encoded' = 0
    /\ frames_transmitted' = 0
    /\ frames_dropped' = 0
    /\ dropped_seqs' = {}
    /\ stop_returned' = FALSE
    /\ sub_pos' = [s \in Subs |-> 0]
    /\ received' = NoFrames
    /\ sub_from_start' = [s \in Subs |-> FALSE]
    /\ skipped' = [s \in Subs |-> {}]
    /\ sub_state' = [s \in Subs |->
                        IF sub_state[s] = "open" /\ ~stream_manager
                                                 /\ ~is_streaming
                        THEN "ended" ELSE sub_state[s]]
    /\ UNCHANGED <<lockVars, ringVars, sideVars, target_macos, stop_pc, captured_total,
                   sub_mgr>>

\* StreamManager::start on the manager in the slot (it is streaming)
StartAgain ==
    /\ stop_pc = "idle"
    /\ stream_manager
    /\ start(is_streaming)
    /\ UNCHANGED <<lockVars, ringVars, sideVars, target_macos, agent_state, stream_manager,
                   stop_pc, managers, captured_total, sent, encVars, statVars,
                   subVars, dropped_seqs, stop_returned>>

\* Agent::stop_capture, first half: the manager is taken out of the slot
\* and StreamManager::stop clears the flag; without a manager only the
\* state is set.  The write guard of the slot is held until stop returns.
StopCapture ==
    /\ stop_pc = "idle"
    /\ IF stream_manager
       THEN /\ stream_manager' = FALSE
            /\ is_streaming' = FALSE
            /\ stop_pc' = "join"
            /\ UNCHANGED agent_state
       ELSE /\ agent_state' = "Connected"
            /\ UNCHANGED <<stream_manager, is_streaming, stop_pc>>
    /\ UNCHANGED <<lockVars, ringVars, sideVars, target_macos, managers, spawned,
                   captured_total, stage, flowVars, encVars, statVars, subVars,
                   dropped_seqs, stop_returned>>

\* tokio::try_join! over the three handles is done when all three tasks
\* have finished, or as soon as one of them has finished with an error
JoinDone ==
    \/ \A t \in StageTasks : Exited(t)
    \/ \E t \in StageTasks : stage[t] = "err"

\* Agent::stop_capture, second half: stop returns (always Ok), the manager
\* is dropped, the state is set
StopReturns ==
    /\ stop_pc = "join"
    /\ JoinDone
    /\ stop_pc' = "idle"
    /\ stop_returned' = TRUE
    /\ agent_state' = "Connected"
    /\ UNCHANGED <<lockVars, ringVars, sideVars, target_macos, stream_manager, managers,
                   spawned, captured_total, is_streaming, stage, flowVars,
                   encVars, statVars, subVars, dropped_seqs>>

(***************************************************************************)
(* The capture task (spawn_capture_task, capture_loop_macos).              *)
(***************************************************************************)
\* other targets: the task returns Ok at once; macOS: MacOSCapturer::new and
\* start, which can fail
CaptureStart ==
    /\ stage["capture"] = "spawned"
    /\ \/ ~target_macos /\ GoStage("capture", "ok")
       \/ target_macos /\ GoStage("capture", "loop")
       \/ target_macos /\ GoStage("capture", "err")
    /\ UNCHANGED <<lockVars, ringVars, sideVars, target_macos, agentVars, is_streaming,
                   flowVars, encVars, statVars, subVars, dropped_seqs,
                   stop_returned>>

\* while is_streaming.load()
CaptureCheck ==
    /\ stage["capture"] = "loop"
    /\ GoStage("capture", IF is_streaming THEN "tick" ELSE "ok")
    /\ UNCHANGED <<lockVars, ringVars, sideVars, target_macos, agentVars, is_streaming,
                   flowVars, encVars, statVars, subVars, dropped_seqs,
                   stop_returned>>

\* a variant of on_send_failure that counts the frame twice
on_send_failure_twice == frames_dropped' = frames_dropped + 2

\* a variant of on_send_failure that forgets the counter
on_send_failure_uncounted == UNCHANGED frames_dropped

\* try_send to Q1 failed: a warning, and the frame is counted as dropped
on_send_failure == frames_dropped' = frames_dropped + 1

\* interval.tick(), get_raw_frame, try_send to Q1
CaptureTick ==
    /\ stage["capture"] = "tick"
    /\ GoStage("capture", "loop")
    /\ \/ /\ captured_total < MaxFrames
          /\ captured_total' = captured_total + 1
          /\ frames_captured' = frames_captured + 1
          /\ IF CanSend(q1, "encode")
             THEN q1' = q1 + 1 /\ UNCHANGED frames_dropped
             ELSE on_send_failure /\ UNCHANGED q1
       \/ \* get_raw_frame failed
          UNCHANGED <<q1, captured_total, frames_captured, frames_dropped>>
    /\ UNCHANGED <<lockVars, ringVars, sideVars, target_macos, agent_state, stream_manager,
                   stop_pc, managers, spawned, is_streaming, q2, sent, encVars,
                   frames_encoded, frames_transmitted, subVars, dropped_seqs,
                   stop_returned>>

(***************************************************************************)
(* The encode task (spawn_encode_task, encode_loop).                       *)
(***************************************************************************)
\* create_encoder: VideoToolbox on macOS, else the software encoder, else
\* (without the h264 feature) an error
EncodeCreate ==
    /\ stage["encode"] = "spawned"
    /\ \/ target_macos /\ hardware' = TRUE /\ GoStage("encode", "loop")
       \/ hardware' = FALSE /\ GoStage("encode", "loop")
       \/ hardware' = FALSE /\ GoStage("encode", "err")
    /\ UNCHANGED <<lockVars, ringVars, sideVars, target_macos, agentVars, is_streaming,
                   flowVars, frame_count, first_out, statVars, subVars,
                   dropped_seqs, stop_returned>>

\* while is_streaming.load()
EncodeCheck ==
    /\ stage["encode"] = "loop"
    /\ GoStage("encode", IF is_streaming THEN "recv" ELSE "ok")
    /\ UNCHANGED <<lockVars, ringVars, sideVars, target_macos, agentVars, is_streaming,
                   flowVars, encVars, statVars, subVars, dropped_seqs,
                   stop_returned>>

\* rx.recv() returned a frame: encode it; a frame that came out is counted
\* and handed to Q2 with try_send, whatever try_send answers
EncodeFrame ==
    /\ stage["encode"] = "recv"
    /\ q1 > 0
    /\ q1' = q1 - 1
    /\ GoStage("encode", "loop")
    /\ frame_count' = NextFrameCount(frame_count)
    /\ \/ LET encoded == IF hardware
                         THEN videotoolbox_encode(frame_count', frames_encoded)
                         ELSE software_encode(frame_count')
          IN /\ frames_encoded' = frames_encoded + 1
             /\ first_out' = IF first_out # "none" THEN first_out
                             ELSE IF encoded.is_keyframe THEN "key" ELSE "delta"
             /\ IF CanSend(Len(q2), "transmit")
                THEN q2' = Append(q2, encoded) /\ UNCHANGED dropped_seqs
                ELSE dropped_seqs' = dropped_seqs \cup {encoded.sequence}
                     /\ UNCHANGED q2
       \/ \* VideoToolboxEncoder::encode failed
          /\ hardware
          /\ dropped_seqs' = dropped_seqs \cup {frame_count'}
          /\ UNCHANGED <<q2, frames_encoded, first_out>>
    /\ UNCHANGED <<lockVars, ringVars, sideVars, target_macos, agentVars, is_streaming,
                   sent, hardware, frames_captured, frames_transmitted,
                   frames_dropped, subVars, stop_returned>>

\* rx.recv() returned None: Q1 is empty and the capture task has gone
EncodeNone ==
    /\ stage["encode"] = "recv"
    /\ q1 = 0
    /\ Exited("capture")
    /\ GoStage("encode", "loop")
    /\ UNCHANGED <<lockVars, ringVars, sideVars, target_macos, agentVars, is_streaming,
                   flowVars, encVars, statVars, subVars, dropped_seqs,
                   stop_returned>>

(***************************************************************************)
(* The transmit task (spawn_transmit_task, transmit_loop).                 *)
(***************************************************************************)
\* while is_streaming.load()
TransmitCheck ==
    /\ stage["transmit"] = "loop"
    /\ GoStage("transmit", IF is_streaming THEN "recv" ELSE "ok")
    /\ UNCHANGED <<lockVars, ringVars, sideVars, target_macos, agentVars, is_streaming,
                   flowVars, encVars, statVars, subVars, dropped_seqs,
                   stop_returned>>

\* a variant of on_no_receivers that counts the frame as dropped
on_no_receivers_counted ==
    /\ frames_dropped' = frames_dropped + 1
    /\ UNCHANGED <<sent, frames_transmitted>>

\* frame_tx.send returned Err: a debug line, nothing else
on_no_receivers == UNCHANGED <<sent, frames_transmitted, frames_dropped>>

\* rx.recv() returned a frame: frame_tx.send stores it for the receivers
\* and it is counted; with no receiver send fails and the frame is skipped
TransmitFrame ==
    /\ stage["transmit"] = "recv"
    /\ q2 # <<>>
    /\ q2' = Tail(q2)
    /\ GoStage("transmit", "loop")
    /\ IF Receivers # {}
       THEN /\ sent' = Append(sent, Head(q2))
            /\ frames_transmitted' = frames_transmitted + 1
            /\ UNCHANGED frames_dropped
       ELSE on_no_receivers
    /\ UNCHANGED <<lockVars, ringVars, sideVars, target_macos, agentVars, is_streaming,
                   q1, encVars, frames_captured, frames_encoded,
                   subVars, dropped_seqs, stop_returned>>

\* rx.recv() returned None: Q2 is empty and the encode task has gone
TransmitNone ==
    /\ stage["transmit"] = "recv"
    /\ q2 = <<>>
    /\ Exited("encode")
    /\ GoStage("transmit", "loop")
    /\ UNCHANGED <<lockVars, ringVars, sideVars, target_macos, agentVars, is_streaming,
                   flowVars, encVars, statVars, subVars, dropped_seqs,
                   stop_returned>>

(***************************************************************************)
(* StreamFrames (DesktopAgentService::stream_frames): one tokio broadcast  *)
(* receiver per call.  `sent` holds every frame stored in the channel; the *)
(* channel retains the last BroadcastCapacity of them.                     *)
(***************************************************************************)
\* the number of frames of `sent` the channel no longer retains
Overwritten ==
    IF Len(sent) > BroadcastCapacity THEN Len(sent) - BroadcastCapacity ELSE 0

\* every sender is gone: the manager is dropped and its transmit task,
\* which holds a clone of frame_tx, has finished
ChannelClosed ==
    /\ ~stream_manager
    /\ stop_pc = "idle"
    /\ Exited("transmit")

\* subscribe_frames under the read guard: a receiver that starts after the
\* frames already stored; without a manager the call fails
Subscribe(s) ==
    /\ sub_state[s] = "none"
    /\ stop_pc = "idle"
    /\ IF stream_manager
       THEN /\ sub_state' = [sub_state EXCEPT ![s] = "open"]
            /\ sub_mgr' = [sub_mgr EXCEPT ![s] = managers]
            /\ sub_pos' = [sub_pos EXCEPT ![s] = Len(sent)]
            /\ sub_from_start' = [sub_from_start EXCEPT ![s] = (frames_encoded = 0)]
       ELSE UNCHANGED <<sub_state, sub_mgr, sub_pos, sub_from_start>>
    /\ UNCHANGED <<lockVars, ringVars, sideVars, target_macos, agentVars, is_streaming,
                   stage, flowVars, encVars, statVars, received, skipped,
                   dropped_seqs, stop_returned>>

\* a variant of recv_advance for a queue with one cursor: the frame s takes
\* is taken from the receivers that had not taken it
recv_advance_shared(s) ==
    sub_pos' = [t \in Subs |->
                   IF t \in Receivers /\ sub_pos[t] <= sub_pos[s]
                   THEN sub_pos[s] + 1 ELSE sub_pos[t]]

\* a broadcast receiver has a position of its own: recv() moves it alone
recv_advance(s) ==
    sub_pos' = [sub_pos EXCEPT ![s] = @ + 1]

\* recv() returned Ok(frame): the frame is yielded to the client
SubFrame(s) ==
    /\ s \in Receivers
    /\ Overwritten <= sub_pos[s]
    /\ sub_pos[s] < Len(sent)
    /\ received' = [received EXCEPT ![s] = Append(@, sent[sub_pos[s] + 1])]
    /\ recv_advance(s)
    /\ UNCHANGED <<lockVars, ringVars, sideVars, target_macos, agentVars, is_streaming,
                   stage, flowVars, encVars, statVars, sub_state, sub_mgr,
                   sub_from_start, skipped, dropped_seqs, stop_returned>>

\* a variant of on_lagged that ends the stream
on_lagged_ends_stream(s) == sub_state' = [sub_state EXCEPT ![s] = "ended"]

\* the Lagged arm of the loop: a debug line, then `continue`
on_lagged(s) == UNCHANGED sub_state

\* recv() returned Err(Lagged(n)): the receiver's next frame was
\* overwritten; tokio moves the receiver to the oldest frame retained
SubLagged(s) ==
    /\ s \in Receivers
    /\ sub_pos[s] < Overwritten
    /\ sub_pos' = [sub_pos EXCEPT ![s] = Overwritten]
    /\ skipped' = [skipped EXCEPT ![s] =
                      @ \cup {sent[i].sequence : i \in (sub_pos[s] + 1)..Overwritten}]
    /\ on_lagged(s)
    /\ UNCHANGED <<lockVars, ringVars, sideVars, target_macos, agentVars, is_streaming,
                   stage, flowVars, encVars, statVars, sub_mgr, received,
                   sub_from_start, dropped_seqs, stop_returned>>

\* recv() returned Err(Closed): the stream ends and the receiver is dropped
SubClosed(s) ==
    /\ s \in Receivers
    /\ sub_pos[s] = Len(sent)
    /\ ChannelClosed
    /\ sub_state' = [sub_state EXCEPT ![s] = "ended"]
    /\ sub_pos' = [sub_pos EXCEPT ![s] = 0]
    /\ received' = [received EXCEPT ![s] = <<>>]
    /\ sub_from_start' = [sub_from_start EXCEPT ![s] = FALSE]
    /\ skipped' = [skipped EXCEPT ![s] = {}]
    /\ UNCHANGED <<lockVars, ringVars, sideVars, target_macos, agentVars, is_streaming,
                   stage, flowVars, encVars, statVars, sub_mgr, dropped_seqs,
                   stop_returned>>

\* the client drops the stream, and the receiver with it
ClientDisconnect(s) ==
    /\ sub_state[s] = "open"
    /\ sub_state' = [sub_state EXCEPT ![s] = "gone"]
    /\ sub_pos' = [sub_pos EXCEPT ![s] = 0]
    /\ received' = [received EXCEPT ![s] = <<>>]
    /\ sub_from_start' = [sub_from_start EXCEPT ![s] = FALSE]
    /\ skipped' = [skipped EXCEPT ![s] = {}]
    /\ UNCHANGED <<lockVars, ringVars, sideVars, target_macos, agentVars, is_streaming,
                   stage, flowVars, encVars, statVars, sub_mgr, dropped_seqs,
                   stop_returned>>

PipeNext ==
    \/ StartCapture
    \/ StartAgain
    \/ StopCapture
    \/ StopReturns
    \/ CaptureStart
    \/ CaptureCheck
    \/ CaptureTick
    \/ EncodeCreate
    \/ EncodeCheck
    \/ EncodeFrame
    \/ EncodeNone
    \/ TransmitCheck
    \/ TransmitFrame
    \/ TransmitNone
    \/ \E s \in Followed : Subscribe(s)
    \/ \E s \in Followed : SubFrame(s)
    \/ \E s \in Followed : SubLagged(s)
    \/ \E s \in Followed : SubClosed(s)
    \/ \E s \in Followed : ClientDisconnect(s)

\* a registered agent on a started bridge, on either target
PipeInit ==
    /\ LockInit
    /\ serviceUp = TRUE
    /\ RingInit
    /\ StreamInit
    /\ SideInit
    /\ target_macos \in BOOLEAN

PipeSpec == PipeInit /\ [][PipeNext]_vars

\* one pipeline from its start and for as long as it streams, with a second
\* StreamFrames call beside the first; the manager is never dropped, so no
\* receiver sees the channel closed
PipeTwoNext ==
    \/ managers = 0 /\ StartCapture
    \/ CaptureStart
    \/ CaptureCheck
    \/ CaptureTick
    \/ EncodeCreate
    \/ EncodeCheck
    \/ EncodeFrame
    \/ EncodeNone
    \/ TransmitCheck
    \/ TransmitFrame
    \/ TransmitNone
    \/ \E s \in Followed : Subscribe(s)
    \/ \E s \in Followed : SubFrame(s)
    \/ \E s \in Followed : SubLagged(s)
    \/ \E s \in Followed : ClientDisconnect(s)
    \/ \E s \in Subs \ Followed : Subscribe(s)
    \/ \E s \in Subs \ Followed : SubFrame(s)
    \/ \E s \in Subs \ Followed : SubLagged(s)
    \/ \E s \in Subs \ Followed : ClientDisconnect(s)

PipeTwoSpec == PipeInit /\ [][PipeTwoNext]_vars

(***************************************************************************)
(* Properties of the pipeline, checked under PipeSpec.                     *)
(***************************************************************************)
\* C14: the sequences of the frames a subscriber received are strictly
\* increasing, and every sequence missing between two consecutive ones
\* belongs to a frame that was dropped: lost to an encode error or to a
\* full Q2, or skipped because the subscriber lagged.
C14_SequenceMonotonic ==
    \A s \in Subs :
        LET r == received[s] IN
          \A i \in 1..(Len(r) - 1) :
              /\ r[i].sequence < r[i + 1].sequence
              /\ \A k \in (r[i].sequence + 1)..(r[i + 1].sequence - 1) :
                    k \in dropped_seqs \cup skipped[s]

\* a subscriber received two frames with a frame between them that it
\* skipped by lagging
C14_Witness ==
    \E s \in Subs :
        \E i \in 1..(Len(received[s]) - 1) :
            /\ received[s][i + 1].sequence > received[s][i].sequence + 1
            /\ (received[s][i].sequence + 1) \in skipped[s]

\* C15: the first frame a subscriber observes is a keyframe, whenever it
\* attached, and the encoder's first successful output is a keyframe.
C15_FirstFrameIsKeyframe ==
    /\ \A s \in Subs : received[s] # <<>> => received[s][1].is_keyframe
    /\ first_out \in {"none", "key"}

\* a subscriber attached before the encoder put out a frame, and still
\* attached
AttachedThroughout(s) == s \in Receivers /\ sub_from_start[s]

\* C16: a subscriber attached throughout has received exactly frames_encoded
\* frames once nothing is on its way to it (Q2 is empty or the transmit
\* task gone, and the subscriber has taken every frame stored for it).
C16_SubscribersReceiveAllEncoded ==
    \A s \in Subs :
        (/\ AttachedThroughout(s)
         /\ sub_pos[s] = Len(sent)
         /\ (q2 = <<>> \/ Exited("transmit")))
        => Len(received[s]) = frames_encoded

\* C17: stop returns only after the capture, encode and transmit tasks have
\* all exited.
C17_StopWaitsForAllStages ==
    stop_returned => \A t \in StageTasks : Exited(t)

\* C18: while the pipeline is streaming, a start leaves the stage tasks,
\* the queues and the broadcast channel as they are (nothing is spawned,
\* no manager is created), and the subscribers stay attached to the
\* manager in the slot.
C18_StartWhileStreamingChangesNothing ==
    [][(stream_manager /\ is_streaming) =>
          /\ spawned' = spawned
          /\ managers' = managers
          /\ \A s \in Receivers : sub_mgr'[s] = managers'
      ]_vars

\* the step in which subscriber s's recv() returns Err(Lagged(n)): its next
\* frame was overwritten and its position in the channel moves
LaggedStep(s) ==
    /\ s \in Receivers
    /\ sub_pos[s] < Overwritten
    /\ sub_pos'[s] # sub_pos[s]
    /\ managers' = managers
    /\ sub_state'[s] # "gone"

\* the number n of a Lagged(n) the subscriber is about to get
LaggedBy(s) == Overwritten - sub_pos[s]

\* C19: a lagging StreamFrames call is not ended: the lag step leaves the
\* stream open and yields nothing, the call goes on with the oldest frame
\* the channel still holds, and that frame is there to be taken.
C19_LagResumesAtOldestRetained ==
    [][\A s \in Subs :
          /\ LaggedStep(s) =>
                /\ sub_state'[s] = "open"
                /\ received'[s] = received[s]
                /\ sub_pos'[s] = Overwritten
                /\ sub_pos'[s] < Len(sent')
          /\ (s \in Receivers /\ Len(received'[s]) = Len(received[s]) + 1) =>
                received'[s][Len(received'[s])] = sent[sub_pos[s] + 1]
      ]_vars

\* C19 as stated: after the lag step the call is open and the frame it
\* takes next is the newest one in the channel.
C19_LagResumesAtNewest ==
    [][\A s \in Subs :
          LaggedStep(s) =>
              /\ sub_state'[s] = "open"
              /\ sub_pos'[s] = Len(sent') - 1
      ]_vars

\* a subscriber lagged, stayed open, and the frame it took after the frames
\* it skipped is not the newest one in the channel
C19_Witness ==
    \E s \in Receivers :
        /\ received[s] # <<>>
        /\ received[s][Len(received[s])] = sent[sub_pos[s]]
        /\ (sent[sub_pos[s]].sequence - 1) \in skipped[s]
        /\ sub_pos[s] < Len(sent)

\* C20: when a subscriber lags by n, the stream hands the client a report
\* of the lag and the n frames are added to the drop counter.
C20_LagIsReportedAndCounted ==
    [][\A s \in Subs :
          LaggedStep(s) =>
              /\ Len(received'[s]) > Len(received[s])
              /\ frames_dropped' = frames_dropped + LaggedBy(s)
      ]_vars

\* C22: after StopCapture every open StreamFrames call gets stream-end.  A
\* call can only get it from the channel of the pipeline that StopCapture
\* stopped: once StopCapture has returned and the stage tasks are gone, no
\* call is still open on another channel.
C22_StopEndsEveryStream ==
    (/\ stop_returned
     /\ ~stream_manager
     /\ stop_pc = "idle"
     /\ \A t \in StageTasks : Exited(t))
    => \A s \in Subs : sub_state[s] = "open" => sub_mgr[s] = managers

\* the step in which the capture task, woken by its interval, asks for a
\* frame and offers it to Q1
CaptureTickStep ==
    /\ stage["capture"] = "tick"
    /\ stage'["capture"] = "loop"
    /\ managers' = managers

\* C23: the capture task, once woken, is never held up by Q1: its step can
\* always be taken; a frame obtained is counted in frames_captured; offered
\* to a full Q1 it is dropped and frames_dropped goes up by one, otherwise
\* it is queued and frames_dropped stays; no other step of the pipeline
\* touches frames_dropped.
C23_CaptureNeverBlocks ==
    [][/\ stage["capture"] = "tick" => ENABLED CaptureTick
       /\ CaptureTickStep =>
             IF captured_total' # captured_total
             THEN /\ frames_captured' = frames_captured + 1
                  /\ q1 = MaxQueue =>
                        q1' = q1 /\ frames_dropped' = frames_dropped + 1
                  /\ (q1 < MaxQueue /\ ~Exited("encode")) =>
                        q1' = q1 + 1 /\ frames_dropped' = frames_dropped
             ELSE UNCHANGED <<q1, frames_captured, frames_dropped>>
       /\ (~CaptureTickStep /\ managers' = managers) =>
             frames_dropped' = frames_dropped
      ]_vars

\* Q1 is full, the encode task alive and yet to take its first frame, and
\* the capture task has dropped a frame
C23_Witness ==
    /\ q1 = MaxQueue
    /\ ~Exited("encode")
    /\ frame_count = 0
    /\ frames_dropped >= 1
    /\ frames_captured = MaxQueue + frames_dropped

\* the step in which the transmit task takes a frame from Q2 and hands it
\* to the broadcast channel
PublishStep ==
    /\ stage["transmit"] = "recv"
    /\ Len(q2') = Len(q2) - 1
    /\ managers' = managers

\* C24: a frame published while no subscriber is attached is discarded:
\* frames_dropped and frames_transmitted stay as they are, the channel
\* stores nothing, and the transmit task goes back to its loop.
C24_NoSubscriberNoPenalty ==
    [][(PublishStep /\ Receivers = {}) =>
          /\ frames_dropped' = frames_dropped
          /\ frames_transmitted' = frames_transmitted
          /\ sent' = sent
          /\ dropped_seqs' = dropped_seqs
          /\ stage'["transmit"] = "loop"
      ]_vars

\* a frame was encoded and queued, has left Q2, and is in no channel: it
\* was published with nobody attached, and the transmit task is in its loop
C24_Witness ==
    /\ frames_encoded >= 1
    /\ q2 = <<>>
    /\ sent = <<>>
    /\ dropped_seqs = {}
    /\ frames_dropped = 0
    /\ frames_transmitted = 0
    /\ stage["transmit"] = "loop"
    /\ is_streaming

(***************************************************************************)
(* Two StreamFrames calls on one pipeline, checked under PipeTwoSpec.      *)
(***************************************************************************)
\* a subscriber that has taken every frame before the channel overwrote it
KeepsUp(s) == s \in Receivers /\ skipped[s] = {}

\* C21: the transmit task publishes whenever it holds a frame, wherever the
\* subscribers are, and a subscriber that keeps up has received every frame
\* published since it attached, in order and without a hole, however far
\* behind another subscriber is.
C21_SlowSubscriberStallsNobody ==
    /\ (stage["transmit"] = "recv" /\ q2 # <<>>) => ENABLED TransmitFrame
    /\ \A s \in Subs :
          KeepsUp(s) =>
              /\ Len(received[s]) <= sub_pos[s]
              /\ \A i \in 1..Len(received[s]) :
                    received[s][i] = sent[sub_pos[s] - Len(received[s]) + i]
              /\ sub_from_start[s] => Len(received[s]) = sub_pos[s]

\* one subscriber has received all three frames published while the other
\* has fallen behind the frames the channel retains
C21_Witness ==
    \E s, t \in Subs :
        /\ s # t
        /\ KeepsUp(s)
        /\ Len(sent) >= 3
        /\ Len(received[s]) = Len(sent)
        /\ t \in Receivers
        /\ sub_pos[t] < Overwritten

(***************************************************************************)
(* A VideoEncoder used on its own (video/encoder.rs): an encoder made by   *)
(* create_encoder with keyframe_interval in 1..MaxInterval is handed       *)
(* RawFrames whose sequence numbers increase (the capturer's counter skips *)
(* the frames it failed to fetch, and Q1 drops frames), and is asked for   *)
(* keyframes.  An output is recorded with two history fields: `raw`, the   *)
(* sequence of the RawFrame it was made from, and `requested`, the value   *)
(* of request_keyframe_flag when encode ran.                               *)
(***************************************************************************)
\* VideoEncoder::encode
EncoderEncode ==
    \E raw \in (raw_seq + 1)..MaxRawSeq :
        /\ frame_count < MaxFrames
        /\ raw_seq' = raw
        /\ frame_count' = NextFrameCount(frame_count)
        /\ \/ encoder_out' =
                 Append(encoder_out,
                        [sequence |-> frame_count',
                         is_keyframe |->
                             IF hardware
                             THEN videotoolbox_is_keyframe(Len(encoder_out),
                                                           keyframe_interval)
                             ELSE software_is_keyframe(frame_count',
                                                       keyframe_interval),
                         raw |-> raw,
                         requested |-> request_keyframe_flag])
           \/ \* VideoToolboxEncoder::encode failed
              hardware /\ UNCHANGED encoder_out
        /\ UNCHANGED <<lockVars, ringVars, target_macos, agentVars, is_streaming,
                       stage, flowVars, hardware, first_out, statVars, subVars,
                       dropped_seqs, stop_returned, keyframe_interval,
                       request_keyframe_flag, injectVars, serviceVars>>

\* VideoEncoder::request_keyframe, the same in both encoders
request_keyframe ==
    /\ request_keyframe_flag' = TRUE
    /\ UNCHANGED <<lockVars, ringVars, pipeVars, keyframe_interval, raw_seq,
                   encoder_out, injectVars, serviceVars>>

EncoderNext ==
    \/ EncoderEncode
    \/ request_keyframe

\* create_encoder: the hardware encoder on macOS, the software encoder on
\* any target
EncoderInit ==
    /\ LockInit
    /\ RingInit
    /\ PipelineIdle
    /\ target_macos \in BOOLEAN
    /\ hardware \in {h \in BOOLEAN : h => target_macos}
    /\ keyframe_interval \in 1..MaxInterval
    /\ EncoderNew
    /\ InjectInit
    /\ ServiceIdle

EncoderSpec == EncoderInit /\ [][EncoderNext]_vars

(***************************************************************************)
(* Properties of an encoder, checked under EncoderSpec.                    *)
(***************************************************************************)
\* C25: the sequence of every EncodedFrame is the sequence of the RawFrame
\* it was made from.
C25_SequencePreserved ==
    \A i \in 1..Len(encoder_out) : encoder_out[i].sequence = encoder_out[i].raw

\* C26: the first frame encode puts out after request_keyframe was called
\* is a keyframe.
C26_RequestedKeyframeIsNext ==
    \A i \in 1..Len(encoder_out) :
        (/\ encoder_out[i].requested
         /\ (i = 1 \/ ~encoder_out[i - 1].requested))
        => encoder_out[i].is_keyframe

\* C27: with keyframe_interval = k, any k consecutive outputs of an encoder
\* hold a keyframe.
C27_KeyframeEveryInterval ==
    \A i \in 1..(Len(encoder_out) - keyframe_interval + 1) :
        \E j \in i..(i + keyframe_interval - 1) : encoder_out[j].is_keyframe

(***************************************************************************)
(* The input RPCs of DesktopAgentService (grpc_service.rs) and the xdotool *)
(* commands they run (input/linux.rs).  tonic runs every request in a task *)
(* of its own on the multi-threaded runtime, so the two handler tasks run  *)
(* side by side; a step is one xdotool command.                            *)
(***************************************************************************)
InjectOps == {"inject_mouse_move", "inject_mouse_click", "inject_key_press"}
InjectSteps == {"mousemove", "click", "key"}

\* the lock and bridge state no input handler touches
injectFrame == <<ctlVars, serviceUp, devVars, holder, agent_id, trayVars,
                 hotkeyPressed, attempt, now, wd_next, histVars, ringVars,
                 pipeVars, coderVars, serviceVars>>

\* DesktopAgentService::register_agent: the agent is stored, replacing any
\* agent that was there
ServiceRegister ==
    /\ agent' = TRUE
    /\ UNCHANGED <<injectFrame, pc, op, result, inj_agent, inj_target, pointer,
                   landed, keyed>>

\* DesktopAgentService::unregister_agent
ServiceUnregister ==
    /\ agent' = FALSE
    /\ UNCHANGED <<injectFrame, pc, op, result, inj_agent, inj_target, pointer,
                   landed, keyed>>

\* an input request reaches a handler, which goes straight to the platform
\* call: no handler looks at self.agent or takes a lock
InjectArrive(t, o, x) ==
    /\ pc[t] = "idle"
    /\ op' = [op EXCEPT ![t] = o]
    /\ inj_target' = [inj_target EXCEPT ![t] = x]
    /\ inj_agent' = [inj_agent EXCEPT ![t] = agent]
    /\ pc' = [pc EXCEPT ![t] =
                 IF o = "inject_key_press" THEN "key" ELSE "mousemove"]
    /\ UNCHANGED <<injectFrame, result, agent, pointer, landed, keyed>>

\* input::inject_mouse_move: xdotool mousemove x y; inject_mouse_click goes
\* on to its click when the move succeeded
XdotoolMousemove(t) ==
    /\ pc[t] = "mousemove"
    /\ \/ /\ pointer' = inj_target[t]
          /\ IF op[t] = "inject_mouse_click"
             THEN Goto(t, "click") /\ UNCHANGED result
             ELSE Goto(t, "respond") /\ result' = [result EXCEPT ![t] = "ok"]
       \/ \* xdotool failed
          /\ Goto(t, "respond")
          /\ result' = [result EXCEPT ![t] = "err"]
          /\ UNCHANGED pointer
    /\ UNCHANGED <<injectFrame, op, agent, inj_agent, inj_target, landed, keyed>>

\* inject_mouse_click_with_options after the move and the 10 ms sleep:
\* xdotool click, which clicks where the pointer is
XdotoolClick(t) ==
    /\ pc[t] = "click"
    /\ Goto(t, "respond")
    /\ \/ /\ landed' = [landed EXCEPT ![t] = pointer]
          /\ result' = [result EXCEPT ![t] = "ok"]
       \/ \* xdotool failed
          /\ result' = [result EXCEPT ![t] = "err"]
          /\ UNCHANGED landed
    /\ UNCHANGED <<injectFrame, op, agent, inj_agent, inj_target, pointer, keyed>>

\* input::inject_key_press: one xdotool key (or type) command
XdotoolKey(t) ==
    /\ pc[t] = "key"
    /\ Goto(t, "respond")
    /\ \/ /\ keyed' = keyed \cup {t}
          /\ result' = [result EXCEPT ![t] = "ok"]
       \/ \* xdotool failed
          /\ result' = [result EXCEPT ![t] = "err"]
          /\ UNCHANGED keyed
    /\ UNCHANGED <<injectFrame, op, agent, inj_agent, inj_target, pointer, landed>>

\* the handler answers with InputResponse (success or the error text)
InjectRespond(t) ==
    /\ pc[t] = "respond"
    /\ Goto(t, "idle")
    /\ op' = [op EXCEPT ![t] = "none"]
    /\ result' = [result EXCEPT ![t] = "none"]
    /\ inj_agent' = [inj_agent EXCEPT ![t] = FALSE]
    /\ inj_target' = [inj_target EXCEPT ![t] = 0]
    /\ landed' = [landed EXCEPT ![t] = 0]
    /\ keyed' = keyed \ {t}
    /\ UNCHANGED <<injectFrame, agent, pointer>>

InjectNext ==
    \/ ServiceRegister
    \/ ServiceUnregister
    \/ \E t \in RpcTasks : \E o \in InjectOps : \E x \in 1..MaxCoord :
          InjectArrive(t, o, x)
    \/ \E t \in RpcTasks : XdotoolMousemove(t)
    \/ \E t \in RpcTasks : XdotoolClick(t)
    \/ \E t \in RpcTasks : XdotoolKey(t)
    \/ \E t \in RpcTasks : InjectRespond(t)

\* the service as DesktopAgentService::new leaves it
InjectSpecInit ==
    /\ LockInit
    /\ RingInit
    /\ StreamInit
    /\ SideInit
    /\ target_macos = FALSE

InjectSpec == InjectSpecInit /\ [][InjectNext]_vars

\* C28: a non-register RPC issued while no agent is registered fails with
\* NotRegistered and has no side effect: an input request that arrived while
\* the agent was None types no key, lands no click and is not answered
\* with success.
C28_UnregisteredCallsAreRejected ==
    \A t \in RpcTasks :
        (pc[t] # "idle" /\ ~inj_agent[t])
            => (t \notin keyed /\ landed[t] = 0 /\ result[t] # "ok")

\* C30: input RPCs are serialised: no two injections are inside their
\* platform steps at once, so a click lands where its own request moved the
\* pointer.
C30_InjectionsAreSerialised ==
    /\ \A t1, t2 \in RpcTasks :
          (pc[t1] \in InjectSteps /\ pc[t2] \in InjectSteps) => t1 = t2
    /\ \A t \in RpcTasks : landed[t] \in {0, inj_target[t]}

\* C29: a RegisterAgent that arrives while a session is registered unlocks
\* the input before the new session becomes current: no re-registration
\* can complete and leave the input locked.
C29_ReRegistrationUnlocksFirst ==
    \A t \in RpcTasks :
        agent_id => ~ENABLED (RegisterAgent(t) /\ agent_id' /\ is_locked')

(***************************************************************************)
(* Statistics of a pipeline run (get_stats), checked under PipeSpec.       *)
(***************************************************************************)
\* C40: at every moment of a pipeline run
\* frames_transmitted <= frames_encoded <= frames_captured - frames_dropped.
C40_CountersAreOrdered ==
    /\ frames_transmitted <= frames_encoded
    /\ frames_encoded <= frames_captured - frames_dropped

\* a run that dropped a frame at Q1, broadcast one, and has encoded more
\* than it has broadcast
C40_Witness ==
    /\ frames_dropped >= 1
    /\ frames_transmitted >= 1
    /\ frames_encoded > frames_transmitted

(***************************************************************************)
(* Further properties of the input lock, checked under Spec.               *)
(***************************************************************************)
\* C35: the recorded lock state agrees with the devices: whenever the
\* controller, with nobody inside it, reports Unlocked (is_locked false,
\* locked_at None), keyboard and pointer are both attached to their masters.
C35_UnlockedMeansAttached ==
    (holder = NoTask /\ ~is_locked /\ locked_at = {})
        => (~kbFloating /\ ~mouseFloating)

\* C37: the watchdog never ends a lock episode early.  locked_at is written
\* when the state goes from Unlocked to Locked and not again while it stays
\* Locked; the watchdog starts an unlock only when the state is Locked and
\* the time since locked_at exceeds the timeout, and the forced unlock it
\* completes is the unlock of such an episode.
C37_WatchdogNeverEarly ==
    /\ [][(~is_locked /\ is_locked') => locked_at' = {now}]_lockVars
    /\ [][(is_locked /\ is_locked') => locked_at' = locked_at]_lockVars
    /\ [][(forced' > forced)
            => (holder = "watchdog" /\ is_locked /\ EpisodeExceeded)]_lockVars
    /\ [](pc["watchdog"] \in {"unlock_inputs", "reattach_kb", "reattach_mouse",
                              "backoff"}
            => (is_locked /\ EpisodeExceeded))

\* the watchdog is about to force the unlock of an episode that began after
\* the start
C37_Witness ==
    /\ pc["watchdog"] = "unlock_inputs"
    /\ is_locked
    /\ \E t \in locked_at : t > 0 /\ now - t > LockTimeout

(***************************************************************************)
(* Progress of the lock users.                                             *)
(***************************************************************************)
\* a step of task t inside its handler, once it holds the write guard
TaskStep(t) ==
    \/ lock_inputs(t)
    \/ FloatKeyboard(t)
    \/ FloatMouse(t)
    \/ Backoff(t)
    \/ unlock_inputs(t)
    \/ emergency_unlock(t)
    \/ ReattachKeyboard(t)
    \/ ReattachMouse(t)
    \/ Post(t)

\* how far the handler of task t is from its return: the attempts it has
\* left, then its place within the attempt; 0 outside the controller
Rank(t) ==
    LET place == CASE pc[t] \in {"lock_inputs", "unlock_inputs", "emergency_unlock"} -> 9
                   [] pc[t] \in {"float_kb", "reattach_kb"} -> 5
                   [] pc[t] \in {"float_mouse", "reattach_mouse"} -> 4
                   [] pc[t] = "backoff" -> 3
                   [] OTHER -> 1
    IN IF InAttempt(t) \/ pc[t] = "post"
       THEN (MAX_RETRIES + 1 - attempt[t]) * 10 + place
       ELSE 0

SessionRegister ==
    /\ stop_pc = "idle"
    /\ agent' = TRUE
    /\ agent_state' = "Initializing"
    /\ stream_manager' = FALSE
    /\ UNCHANGED <<lockVars, ringVars, coderVars, serviceVars, inj_agent, inj_target, pointer,
                   landed, keyed, target_macos, stop_pc, managers, spawned,
                   captured_total, is_streaming, stage, flowVars, encVars,
                   statVars, subVars, dropped_seqs, stop_returned>>

\* unregister_agent with an agent in the slot: Agent::disconnect stops the
\* capture if there is a stream manager (the manager is taken out and
\* StreamManager::stop clears the flag, then waits); without one the state
\* is set and the slot is emptied at once
UnregisterBegin ==
    /\ agent
    /\ stop_pc = "idle"
    /\ IF stream_manager
       THEN /\ stream_manager' = FALSE
            /\ is_streaming' = FALSE
            /\ stop_pc' = "join_disconnect"
            /\ UNCHANGED <<agent, agent_state>>
       ELSE /\ agent_state' = "Disconnected"
            /\ agent' = FALSE
            /\ UNCHANGED <<stream_manager, is_streaming, stop_pc>>
    /\ UNCHANGED <<lockVars, ringVars, coderVars, serviceVars, inj_agent, inj_target, pointer,
                   landed, keyed, target_macos, managers, spawned,
                   captured_total, stage, flowVars, encVars, statVars, subVars,
                   dropped_seqs, stop_returned>>

\* stop has returned inside disconnect: the state is set, the slot emptied
UnregisterReturns ==
    /\ stop_pc = "join_disconnect"
    /\ JoinDone
    /\ stop_pc' = "idle"
    /\ stop_returned' = TRUE
    /\ agent_state' = "Disconnected"
    /\ agent' = FALSE
    /\ UNCHANGED <<lockVars, ringVars, coderVars, serviceVars, inj_agent, inj_target, pointer,
                   landed, keyed, target_macos, stream_manager, managers,
                   spawned, captured_total, is_streaming, stage, flowVars,
                   encVars, statVars, subVars, dropped_seqs>>

\* the capture RPCs answer "Agent not registered" without an agent
SessionNext ==
    \/ SessionRegister
    \/ UnregisterBegin
    \/ UnregisterReturns
    \/ agent /\ StartCapture
    \/ agent /\ StopCapture
    \/ StopReturns
    \/ CaptureStart
    \/ CaptureCheck
    \/ CaptureTick
    \/ EncodeCreate
    \/ EncodeCheck
    \/ EncodeFrame
    \/ EncodeNone
    \/ TransmitCheck
    \/ TransmitFrame
    \/ TransmitNone
    \/ \E s \in Followed : Subscribe(s)
    \/ \E s \in Followed : SubFrame(s)
    \/ \E s \in Followed : SubLagged(s)
    \/ \E s \in Followed : SubClosed(s)
    \/ \E s \in Followed : ClientDisconnect(s)

SessionSpec == PipeInit /\ [][SessionNext]_vars

\* C36: when a session is torn down or replaced, the pipeline of the
\* previous session is stopped.  A pipeline no session owns and nobody is
\* stopping has had its flag cleared, or has no stage task left running.
C36_NoPipelineOutlivesItsSession ==
    (~stream_manager /\ stop_pc = "idle" /\ is_streaming)
        => \A t \in StageTasks : Exited(t)

(***************************************************************************)
(* Validation of request arguments (validation.rs).  The input handlers   *)
(* of InjectSpec pass the request's coordinates to xdotool as they come.  *)
(***************************************************************************)
\* CoordinateValidator::validate: Ok exactly when no check bails
validate(x, y) ==
    /\ ~(x < 0)
    /\ ~(y < 0)
    /\ ~(x >= ScreenWidth)
    /\ ~(y >= ScreenHeight)

\* C32: a pointer request whose coordinates are out of bounds is rejected
\* before any side effect: it never stands at an xdotool command and it is
\* never answered with success.
C32_InvalidInputRejectedFirst ==
    \A t \in RpcTasks :
       (/\ op[t] \in {"inject_mouse_move", "inject_mouse_click"}
        /\ ~validate(inj_target[t], inj_target[t]))
       => (pc[t] \notin {"mousemove", "click"} /\ result[t] # "ok")

(***************************************************************************)
(* The RPC reactor: the worker threads of the tokio runtime (#[tokio::main]*)
(* in main.rs, one worker per core) poll the request tasks.  A handler     *)
(* that runs a platform tool with std::process::Command::output keeps its  *)
(* worker until the tool has finished; tokio::task::spawn_blocking moves   *)
(* the work to the blocking pool and gives the worker back.                *)
(***************************************************************************)
RuntimeOps == {"heartbeat", "bridge_take_screenshot", "agent_take_screenshot"}

\* the handler of task t sits on a runtime worker inside a blocking call
OnWorker(t) == pc[t] \in {"scrot", "gnome_screenshot", "import"}
FreeWorker == Cardinality({t \in RpcTasks : OnWorker(t)}) < workers

\* what the runtime actions leave alone
runtimeFrame == <<ctlVars, serviceUp, devVars, holder, agent_id, trayVars,
                  hotkeyPressed, attempt, now, wd_next, histVars, ringVars,
                  pipeVars, sideVars>>

\* a request arrives and its task is ready to be polled
RuntimeArrive(t, o) ==
    /\ pc[t] = "idle"
    /\ Goto(t, "ready")
    /\ op' = [op EXCEPT ![t] = o]
    /\ UNCHANGED <<runtimeFrame, result>>

\* a free worker polls the task.  heartbeat answers within the poll;
\* BridgeService::take_screenshot calls capture_screenshot_with_fallback on
\* the worker; DesktopAgentService::take_screenshot hands its closure to
\* spawn_blocking and, woken when it is done, builds the response
RuntimePoll(t) ==
    /\ pc[t] \in {"ready", "woken"}
    /\ FreeWorker
    /\ IF pc[t] = "woken"
       THEN Goto(t, "respond") /\ UNCHANGED result
       ELSE CASE op[t] = "heartbeat" ->
                   Goto(t, "respond") /\ result' = [result EXCEPT ![t] = "ok"]
              [] op[t] = "bridge_take_screenshot" ->
                   Goto(t, "scrot") /\ UNCHANGED result
              [] OTHER ->
                   Goto(t, "pool") /\ UNCHANGED result
    /\ UNCHANGED <<runtimeFrame, op>>

\* capture_screenshot_with_fallback on the runtime worker: scrot, then
\* gnome-screenshot, then import, each waited for with output()
BlockingCapture(t) ==
    /\ OnWorker(t)
    /\ \E ok \in BOOLEAN :
         IF ok
         THEN Goto(t, "respond") /\ result' = [result EXCEPT ![t] = "ok"]
         ELSE CASE pc[t] = "scrot" -> Goto(t, "gnome_screenshot") /\ UNCHANGED result
                [] pc[t] = "gnome_screenshot" -> Goto(t, "import") /\ UNCHANGED result
                [] OTHER -> Goto(t, "respond")
                            /\ result' = [result EXCEPT ![t] = "err"]
    /\ UNCHANGED <<runtimeFrame, op>>

\* the closure of DesktopAgentService::take_screenshot on a thread of the
\* blocking pool
PoolCapture(t) ==
    /\ pc[t] = "pool"
    /\ Goto(t, "woken")
    /\ \E r \in {"ok", "err"} : result' = [result EXCEPT ![t] = r]
    /\ UNCHANGED <<runtimeFrame, op>>

\* the response is sent
RuntimeRespond(t) ==
    /\ pc[t] = "respond"
    /\ Goto(t, "idle")
    /\ op' = [op EXCEPT ![t] = "none"]
    /\ result' = [result EXCEPT ![t] = "none"]
    /\ UNCHANGED runtimeFrame

RuntimeNext ==
    \/ \E t \in RpcTasks : \E o \in RuntimeOps : RuntimeArrive(t, o)
    \/ \E t \in RpcTasks : RuntimePoll(t)
    \/ \E t \in RpcTasks : BlockingCapture(t)
    \/ \E t \in RpcTasks : PoolCapture(t)
    \/ \E t \in RpcTasks : RuntimeRespond(t)

\* a started service on a host with 1..MaxWorkers cores
RuntimeInit ==
    /\ LockInit
    /\ serviceUp = TRUE
    /\ RingInit
    /\ StreamInit
    /\ keyframe_interval = KeyframeInterval
    /\ EncoderNew
    /\ InjectInit
    /\ target_macos = FALSE
    /\ workers \in 1..MaxWorkers
    /\ apps = <<>>
    /\ fuzzy = <<>>
    /\ launch = NoLaunch
    /\ audio = NoAudio

RuntimeSpec == RuntimeInit /\ [][RuntimeNext]_vars

\* C31: blocking operations never stall the RPC reactor: no handler is
\* inside a screenshot capture or another platform tool on a runtime worker,
\* and a Heartbeat that waits to be polled can be polled at once, whatever
\* screenshot RPCs are in flight.
C31_ReactorNeverStalled ==
    \A t \in RpcTasks :
       /\ ~OnWorker(t)
       /\ (pc[t] = "ready" /\ op[t] = "heartbeat") => ENABLED RuntimePoll(t)

(***************************************************************************)
(* The application index and LaunchApplication on the desktop-entry        *)
(* platform (desktop_apps.rs, grpc_service.rs 794-970).  The index holds   *)
(* entries of a catalogue of two applications in either scan order.  With  *)
(* these entries and queries the pattern is a subsequence of a field only  *)
(* when the two are equal, so the matcher scores equal strings and gives   *)
(* None to every other pair; the score of equal strings is not known and   *)
(* is drawn once, the same for every call.                                 *)
(***************************************************************************)
Nautilus ==
    [id |-> "org.gnome.Nautilus.desktop", name |-> "Files",
     exec |-> "nautilus", keywords |-> <<"folder">>, generic_name |-> "",
     path |-> "/usr/share/applications/org.gnome.Nautilus.desktop"]
ArchiveManager ==
    [id |-> "org.gnome.ArchiveManager.desktop", name |-> "Archive Manager",
     exec |-> "file-roller", keywords |-> <<"files">>, generic_name |-> "",
     path |-> "/usr/share/applications/org.gnome.ArchiveManager.desktop"]
Indexes == {<<Nautilus>>, <<ArchiveManager>>, <<Nautilus, ArchiveManager>>,
            <<ArchiveManager, Nautilus>>}
Queries == {"Files", "files", "Archive Manager", "vlc"}

\* str::to_lowercase on the strings of the catalogue and the queries
Lower(str) ==
    CASE str = "Files" -> "files"
      [] str = "Archive Manager" -> "archive manager"
      [] str = "org.gnome.Nautilus.desktop" -> "org.gnome.nautilus.desktop"
      [] str = "org.gnome.ArchiveManager.desktop" ->
             "org.gnome.archivemanager.desktop"
      [] OTHER -> str

\* SkimMatcherV2::fuzzy_match(choice, pattern); None counts 0 in find_app
fuzzy_match(choice, pattern) ==
    IF choice = pattern THEN fuzzy[pattern] ELSE 0

\* the largest member of a non-empty set of scores
MaxOf(S) == CHOOSE m \in S : \A n \in S : n <= m

\* AppIndex::find_app: the loop over the first i entries keeps the first
\* entry with the strictly greatest score; the result is its place in the
\* index, 0 for None
RECURSIVE BestMatch(_, _)
BestMatch(query_lower, i) ==
    IF i = 0
    THEN [best_score |-> 0, best_app |-> 0]
    ELSE LET best == BestMatch(query_lower, i - 1)
             app == apps[i]
             max_score ==
                 MaxOf({fuzzy_match(Lower(app.name), query_lower),
                        fuzzy_match(Lower(app.id), query_lower),
                        fuzzy_match(Lower(app.generic_name), query_lower)}
                       \cup {fuzzy_match(Lower(app.keywords[k]), query_lower) :
                               k \in 1..Len(app.keywords)})
         IN  IF max_score > best.best_score
             THEN [best_score |-> max_score, best_app |-> i]
             ELSE best

find_app(query) ==
    LET best == BestMatch(Lower(query), Len(apps))
    IN  IF best.best_score > 30 THEN best.best_app ELSE 0

\* what the service actions leave alone
serviceFrame == <<lockVars, ringVars, pipeVars, coderVars, injectVars,
                  workers, apps, fuzzy>>

\* launch_application up to its first strategy: find_app, then the entry's
\* id, name, path and exec, or the raw name with an empty path
LaunchArrive(q) ==
    /\ launch.pc = "idle"
    /\ LET found == find_app(q)
       IN  launch' =
             [pc |-> "strategies", app_name |-> q, found |-> found,
              details |->
                 IF found # 0
                 THEN [id |-> apps[found].id, name |-> apps[found].name,
                       path |-> apps[found].path, exec |-> apps[found].exec]
                 ELSE [id |-> q, name |-> q, path |-> "", exec |-> q],
              tried |-> <<>>, success |-> FALSE, error |-> <<>>]
    /\ UNCHANGED <<serviceFrame, audio>>

next_strategy_always_xdg(last, app_path_str) ==
    CASE last = "none" -> "gio"
      [] last = "gio" -> "gtk-launch"
      [] last = "gtk-launch" -> "xdg-open"
      [] OTHER -> "exec"

\* METHOD 1 to METHOD 4 of launch_application in the order of the code;
\* xdg-open is skipped when app_path_str is empty
next_strategy(last, app_path_str) ==
    CASE last = "none" -> "gio"
      [] last = "gio" -> "gtk-launch"
      [] last = "gtk-launch" ->
             IF app_path_str # "" THEN "xdg-open" ELSE "exec"
      [] OTHER -> "exec"

\* the next strategy of launch_application: gio launch <path>, gtk-launch
\* <id>, xdg-open <path> unless the path is empty, then the Exec command.
\* Ok(true) returns success at once; Ok(false) and Err go on to the next
\* strategy, and after the last one the handler builds the error response
\* (format!: the cross mark, written U+274C here, the text and app_name)
LaunchStrategy ==
    /\ launch.pc = "strategies"
    /\ LET d == launch.details
           last == IF launch.tried = <<>> THEN "none"
                   ELSE launch.tried[Len(launch.tried)].strategy
           strategy == next_strategy(last, d.path)
           arg == CASE strategy = "gio" -> d.path
                    [] strategy = "gtk-launch" -> d.id
                    [] strategy = "xdg-open" -> d.path
                    [] OTHER -> d.exec
       IN  \E r \in {"true", "false", "err"} :
             LET tried == Append(launch.tried,
                                 [strategy |-> strategy, arg |-> arg, r |-> r])
             IN  launch' =
                   IF r = "true"
                   THEN [launch EXCEPT !.tried = tried, !.success = TRUE,
                                       !.pc = "respond"]
                   ELSE IF strategy = "exec"
                   THEN [launch EXCEPT
                           !.tried = tried,
                           !.error = <<"U+274C All launch strategies failed for: ",
                                       d.name>>,
                           !.pc = "respond"]
                   ELSE [launch EXCEPT !.tried = tried]
    /\ UNCHANGED <<serviceFrame, audio>>

\* the LaunchApplicationResponse is sent
LaunchRespond ==
    /\ launch.pc = "respond"
    /\ launch' = NoLaunch
    /\ UNCHANGED <<serviceFrame, audio>>

(***************************************************************************)
(* AudioStreamingService (audio/grpc_streaming.rs).  The service is built  *)
(* around a broadcast::Sender that its creator passes in; the holders of   *)
(* that Sender are its environment and send the encoded audio frames.      *)
(***************************************************************************)
\* a holder of audio_tx sends a frame
AudioSend ==
    /\ ~audio.closed
    /\ audio.sent < MaxAudioFrames
    /\ audio' = [audio EXCEPT !.sent = @ + 1]
    /\ UNCHANGED <<serviceFrame, launch>>

\* the service and every other holder of audio_tx are dropped
AudioClose ==
    /\ ~audio.closed
    /\ audio' = [audio EXCEPT !.closed = TRUE]
    /\ UNCHANGED <<serviceFrame, launch>>

\* stream_audio: subscribe, spawn the forwarding task, return the stream
stream_audio ==
    /\ audio.rx \in {"none", "ended"}
    /\ ~audio.closed
    /\ audio' = [audio EXCEPT !.rx = "open", !.pos = audio.sent,
                              !.forwarded = 0, !.client = "connected"]
    /\ UNCHANGED <<serviceFrame, launch>>

\* one turn of the forwarding task: while let Ok(frame) = rx.recv().await
\* { if tx.send(frame).await.is_err() { break; } }.  recv gives
\* Err(Lagged) when more than the capacity was sent since its last frame and
\* Err(Closed) when nothing is left and every Sender is gone; either ends
\* the loop, as does a send to a client that went away
AudioForward ==
    /\ audio.rx = "open"
    /\ IF audio.sent - audio.pos > AudioCapacity
       THEN audio' = [audio EXCEPT !.rx = "ended",
                                   !.pos = audio.sent - AudioCapacity]
       ELSE IF audio.pos < audio.sent
       THEN IF audio.client = "gone"
            THEN audio' = [audio EXCEPT !.rx = "ended", !.pos = @ + 1]
            ELSE audio' = [audio EXCEPT !.pos = @ + 1, !.forwarded = @ + 1]
       ELSE /\ audio.closed
            /\ audio' = [audio EXCEPT !.rx = "ended"]
    /\ UNCHANGED <<serviceFrame, launch>>

\* the client drops the ReceiverStream of its call
AudioClientGone ==
    /\ audio.client = "connected"
    /\ audio' = [audio EXCEPT !.client = "gone"]
    /\ UNCHANGED <<serviceFrame, launch>>

ServiceNext ==
    \/ \E q \in Queries : LaunchArrive(q)
    \/ LaunchStrategy
    \/ LaunchRespond
    \/ AudioSend
    \/ AudioClose
    \/ stream_audio
    \/ AudioForward
    \/ AudioClientGone

\* a started service on the desktop-entry platform with a scanned index
ServiceInit ==
    /\ LockInit
    /\ serviceUp = TRUE
    /\ RingInit
    /\ StreamInit
    /\ keyframe_interval = KeyframeInterval
    /\ EncoderNew
    /\ InjectInit
    /\ target_macos = FALSE
    /\ workers = 1
    /\ apps \in Indexes
    /\ fuzzy \in [{"files", "archive manager"} -> 31..MaxScore]
    /\ launch = NoLaunch
    /\ audio = NoAudio

ServiceSpec == ServiceInit /\ [][ServiceNext]_vars

(***************************************************************************)
(* Properties of the launcher and of the audio stream                      *)
(***************************************************************************)
\* the launch in progress follows the strategies of order, stops at the
\* first success, answers nothing before it is through, and answers with
\* failure and the message text followed by the name exactly when every
\* strategy of order failed
LaunchFallback(order, text) ==
    LET n == Len(launch.tried)
        d == launch.details
        failed(i) == launch.tried[i].r # "true"
    IN  /\ n <= Len(order)
        /\ \A i \in 1..n :
              /\ launch.tried[i].strategy = order[i]
              /\ launch.tried[i].arg =
                    CASE order[i] = "gio" -> d.path
                      [] order[i] = "gtk-launch" -> d.id
                      [] order[i] = "xdg-open" -> d.path
                      [] OTHER -> d.exec
              /\ i < n => failed(i)
        /\ launch.pc = "strategies" =>
              /\ \A i \in 1..n : failed(i)
              /\ ~launch.success
              /\ launch.error = <<>>
        /\ launch.pc = "respond" =>
              /\ n > 0
              /\ launch.success <=> ~failed(n)
              /\ ~launch.success <=> (n = Len(order) /\ \A i \in 1..n : failed(i))
              /\ launch.error = IF launch.success THEN <<>> ELSE <<text, d.name>>

\* C33 as stated: the four strategies run in the order launcher by .desktop
\* path, launcher by application id, open by path, direct Exec; the first
\* success wins; a failing strategy falls through silently; failure is
\* reported, with the message "all launch strategies failed for <name>",
\* exactly when every strategy failed.
C33_AsStated ==
    launch.pc # "idle" =>
       LaunchFallback(<<"gio", "gtk-launch", "xdg-open", "exec">>,
                      "all launch strategies failed for ")

\* C33: the strategies run in the order launcher by .desktop path, launcher
\* by application id, open by path, direct Exec, open by path being left
\* out when no index entry matched (there is no path then); the first
\* success wins and no later strategy is run; a failing strategy falls
\* through silently; failure is reported, with the message
\* "U+274C All launch strategies failed for: <name>", exactly when every
\* strategy that was run failed.
C33_LaunchFallback ==
    launch.pc # "idle" =>
       LaunchFallback(IF launch.found # 0
                      THEN <<"gio", "gtk-launch", "xdg-open", "exec">>
                      ELSE <<"gio", "gtk-launch", "exec">>,
                      "U+274C All launch strategies failed for: ")

\* a launch of an indexed application whose four strategies all failed, and
\* which is about to answer with the failure
C33_Witness ==
    /\ launch.pc = "respond"
    /\ launch.found # 0
    /\ ~launch.success
    /\ Len(launch.tried) = 4

\* C34: find(display_name) returns the indexed entry of that name: the
\* entry a launch found is the one whose display name equals the query up
\* to case, whatever the other entries score.
C34_ExactNameIsFound ==
    launch.pc # "idle" =>
       \A i \in 1..Len(apps) :
          Lower(apps[i].name) = Lower(launch.app_name) => launch.found = i

\* C39: an audio stream whose subscriber fell behind is not ended: the
\* forwarding task ends only when the broadcast is closed or the client
\* went away.
C39_LagDoesNotEndAudio ==
    audio.rx = "ended" => (audio.closed \/ audio.client = "gone")

====
